---- MODULE Spec2Model ----
(***************************************************************************)
(* A state-machine model of aioauth_client: one client instance (OAuth1    *)
(* or OAuth2), its credential state, the calls in flight on it and the     *)
(* requests it puts on the transport.                                      *)
(***************************************************************************)
EXTENDS Integers, Sequences, FiniteSets, TLC

\* Python None, and the marker of a key a mapping does not hold.
NONE == "<None>"
ABSENT == "<absent>"
\* JSON null inside a response mapping (Python None as a value).
NULL == "<null>"

(***************************************************************************)
(* Bounds of the model.                                                    *)
(***************************************************************************)
\* Number of key=value fields a response body carries at most.
MaxFields == 2

(***************************************************************************)
(* Python dicts: a sequence of <<key, value>> pairs with distinct keys,    *)
(* in insertion order.                                                     *)
(***************************************************************************)
Has(d, k) == \E i \in 1..Len(d) : d[i][1] = k

Get(d, k) == IF Has(d, k) THEN d[CHOOSE i \in 1..Len(d) : d[i][1] = k][2] ELSE NONE

Put(d, k, v) ==
    IF Has(d, k)
    THEN [i \in 1..Len(d) |-> IF d[i][1] = k THEN <<k, v>> ELSE d[i]]
    ELSE Append(d, <<k, v>>)

RECURSIVE Update(_, _)
Update(d, e) == IF e = <<>> THEN d ELSE Update(Put(d, e[1][1], e[1][2]), Tail(e))

\* Truthiness of an optional string: None and "" are falsy.
Truthy(v) == v \notin {NONE, NULL, ABSENT, ""}

\* Python's `a or b`.
Or(a, b) == IF Truthy(a) THEN a ELSE b

(***************************************************************************)
(* URLs: host "" marks a relative reference; path is the sequence of       *)
(* segments ("" as last segment: a trailing slash); rooted: the reference  *)
(* begins with "/"; query: the key=value fields after "?" (<<>>: none).     *)
(***************************************************************************)
Url(host, rooted, path, query) ==
    [host |-> host, rooted |-> rooted, path |-> path, query |-> query]

NoUrl == Url("", FALSE, <<>>, <<>>)

IsAbsolute(u) == u.host # ""

Front(s) == IF s = <<>> THEN <<>> ELSE SubSeq(s, 1, Len(s) - 1)

\* urllib.parse.urljoin(base, u) for references without dot segments.
UrlJoin(base, u) ==
    IF u = NoUrl THEN base
    ELSE IF u.rooted THEN Url(base.host, TRUE, u.path, u.query)
    ELSE IF u.path = <<>> THEN Url(base.host, TRUE, base.path, u.query)
    ELSE Url(base.host, TRUE, Front(base.path) \o u.path, u.query)


(***************************************************************************)
(* Provider classes: the class-level configuration of the client.          *)
(***************************************************************************)
Provider(kind, base, authorize, request_token, access_token_u, user_info, escape) ==
    [kind |-> kind, base_url |-> base, authorize_url |-> authorize,
     request_token_url |-> request_token, access_token_url |-> access_token_u,
     user_info_url |-> user_info, escape |-> escape]

TwitterClient ==
    Provider("oauth1",
             Url("api.twitter.com", TRUE, <<"1.1", "">>, <<>>),
             Url("api.twitter.com", TRUE, <<"oauth", "authorize">>, <<>>),
             Url("api.twitter.com", TRUE, <<"oauth", "request_token">>, <<>>),
             Url("api.twitter.com", TRUE, <<"oauth", "access_token">>, <<>>),
             Url("api.twitter.com", TRUE, <<"1.1", "account", "verify_credentials.json">>, <<>>),
             FALSE)

Flickr ==
    Provider("oauth1",
             Url("api.flickr.com", TRUE, <<"">>, <<>>),
             Url("www.flickr.com", TRUE, <<"services", "oauth", "authorize">>, <<>>),
             Url("www.flickr.com", TRUE, <<"services", "oauth", "request_token">>, <<>>),
             Url("www.flickr.com", TRUE, <<"services", "oauth", "request_token">>, <<>>),
             Url("api.flickr.com", TRUE, <<"services", "rest">>,
                 <<<<"method", "flickr.test.login">>, <<"format", "json">>,
                   <<"nojsoncallback", "1">>>>),
             FALSE)

Meetup ==
    Provider("oauth1",
             Url("api.meetup.com", TRUE, <<"2", "">>, <<>>),
             Url("www.meetup.com", TRUE, <<"authorize", "">>, <<>>),
             Url("api.meetup.com", TRUE, <<"oauth", "request", "">>, <<>>),
             Url("api.meetup.com", TRUE, <<"oauth", "access", "">>, <<>>),
             NoUrl,
             FALSE)

GithubClient ==
    Provider("oauth2",
             Url("api.github.com", TRUE, <<>>, <<>>),
             Url("github.com", TRUE, <<"login", "oauth", "authorize">>, <<>>),
             NoUrl,
             Url("github.com", TRUE, <<"login", "oauth", "access_token">>, <<>>),
             Url("api.github.com", TRUE, <<"user">>, <<>>),
             FALSE)

TrelloClient ==
    Provider("oauth1",
             Url("api.trello.com", TRUE, <<"1", "">>, <<>>),
             Url("trello.com", TRUE, <<"1", "authorize">>, <<>>),
             Url("trello.com", TRUE, <<"1", "OAuthGetRequestToken">>, <<>>),
             Url("trello.com", TRUE, <<"1", "OAuthGetAccessToken">>, <<>>),
             Url("api.trello.com", TRUE, <<"1", "members", "me", "">>, <<>>),
             TRUE)

StravaClient ==
    Provider("oauth2",
             Url("www.strava.com", TRUE, <<"api", "v3", "">>, <<>>),
             Url("www.strava.com", TRUE, <<"oauth", "authorize">>, <<>>),
             NoUrl,
             Url("www.strava.com", TRUE, <<"oauth", "token">>, <<>>),
             NoUrl,
             FALSE)

Providers == {TwitterClient, Flickr, Meetup, TrelloClient, GithubClient, StravaClient}

(***************************************************************************)
(* What the transport answers.  status 0: the transport raised instead of  *)
(* answering.  A body is JSON text holding an object ("object"), JSON text *)
(* holding anything else ("other"), or form-encoded fields ("form").       *)
(***************************************************************************)
Statuses == {101, 200, 300, 500}

ContentTypes == {"json", "text", NONE}

FieldKeys(kind) ==
    IF kind = "oauth1" THEN {"oauth_token", "oauth_token_secret", "error"}
    ELSE {"access_token", "error"}

FieldValues(k, fmt) ==
    IF k = "error" THEN {"denied"}
    ELSE {"", "vA", "vB"} \cup (IF fmt = "object" /\ k = "access_token" THEN {NULL} ELSE {})

Fields(kind, fmt) ==
    UNION {{<<k, v>> : v \in FieldValues(k, fmt)} : k \in FieldKeys(kind)}

SeqsUpTo(S, n) == UNION {[1..m -> S] : m \in 0..n}

Body(fmt, fields) == [fmt |-> fmt, fields |-> fields]

NoBody == Body("none", <<>>)

Bodies(kind, fmt) == {Body(fmt, f) : f \in SeqsUpTo(Fields(kind, fmt), MaxFields)}

\* A body that carries a full set of credentials, for the answers whose body
\* the client is not meant to read.
TokenBody(kind, fmt) ==
    IF kind = "oauth1"
    THEN Body(fmt, <<<<"oauth_token", "vB">>, <<"oauth_token_secret", "vB">>>>)
    ELSE Body(fmt, <<<<"access_token", "vB">>>>)

\* A body that carries a user's profile.
UserBody(fmt) == Body(fmt, <<<<"id", "u1">>, <<"name", "Ann Lee">>>>)

Response(status, ctype, body) == [status |-> status, ctype |-> ctype, body |-> body]

TransportFailure == Response(0, NONE, NoBody)

\* No answer was read.
NoResponse == Response(0, NONE, Body("unread", <<>>))

\* What a resource endpoint may answer to request() and user_info().
ResourceResponses(kind) ==
    {TransportFailure}
    \cup {Response(s, "json", b) :
            s \in Statuses, b \in {TokenBody(kind, "object"), Body("other", <<>>),
                                   TokenBody(kind, "form"), UserBody("object")}}
    \cup {Response(s, "text", b) :
            s \in Statuses, b \in {TokenBody(kind, "form"), TokenBody(kind, "object")}}
    \cup {Response(s, NONE, NoBody) : s \in Statuses}

\* What a token endpoint may answer to an exchange.
Responses(kind) ==
    ResourceResponses(kind)
    \cup {Response(200, "json", b) : b \in Bodies(kind, "object")}
    \cup {Response(200, "text", b) : b \in Bodies(kind, "form")}

OAuth1Responses == Responses("oauth1")

OAuth2Responses == Responses("oauth2")

OAuth1ResourceResponses == ResourceResponses("oauth1")

OAuth2ResourceResponses == ResourceResponses("oauth2")

\* A slip in _request: parse_qsl keeps the fields with a blank value.
ParseQslKeepingBlanks(fields) == fields

\* urllib.parse.parse_qsl: fields with a blank value are dropped.
RECURSIVE ParseQsl(_)
ParseQsl(fields) ==
    IF fields = <<>> THEN <<>>
    ELSE IF fields[1][2] = "" THEN ParseQsl(Tail(fields))
    ELSE <<fields[1]>> \o ParseQsl(Tail(fields))

\* A response mapping: only membership and lookup are used on it, so it is a
\* function from its keys to their values.
Keys(m) == DOMAIN m

EmptyMap == [k \in {} |-> NONE]

\* dict(pairs) and json(): a later pair overrides an earlier one with the same key.
DictOf(pairs) ==
    [k \in {pairs[i][1] : i \in 1..Len(pairs)} |->
        pairs[CHOOSE i \in 1..Len(pairs) :
                 /\ pairs[i][1] = k
                 /\ \A j \in 1..Len(pairs) : pairs[j][1] = k => j <= i][2]]

\* data.get(k): None when the key is absent or holds JSON null.
MapGet(m, k) == IF k \in DOMAIN m /\ m[k] # NULL THEN m[k] ELSE NONE

\* The values _request hands back (TRes): a mapping, the raw text, or another
\* JSON value.
Data(t, d, raw) == [t |-> t, d |-> d, raw |-> raw]

NoData == Data("none", EmptyMap, NoBody)

IsDict(data) == data.t = "dict"

Result(exc, data) == [exc |-> exc, data |-> data]

\* Client._request after the transport has answered.
ReadResponse(resp, raise_for_status) ==
    IF resp.status = 0 THEN Result("HTTPError", NoData)
    ELSE IF raise_for_status /\ resp.status >= 300 THEN Result("OAuthError", NoData)
    ELSE IF resp.ctype = NONE THEN Result("TypeError", NoData)
    ELSE IF resp.ctype = "json"
    THEN CASE resp.body.fmt = "object" ->
                  Result(NONE, Data("dict", DictOf(resp.body.fields), NoBody))
           [] resp.body.fmt = "other" -> Result(NONE, Data("other", EmptyMap, resp.body))
           [] OTHER -> Result("JSONDecodeError", NoData)
    ELSE LET d == IF resp.body.fmt = "form" THEN DictOf(ParseQsl(resp.body.fields))
                  ELSE EmptyMap
         IN  IF d # EmptyMap THEN Result(NONE, Data("dict", d, NoBody))
             ELSE Result(NONE, Data("str", EmptyMap, resp.body))


(***************************************************************************)
(* The state: one client instance.                                         *)
(*   client              what the constructor fixed: provider class,       *)
(*                       consumer key / client id, secret, **params        *)
(*   oauth_token, oauth_token_secret   OAuth1 credential state             *)
(*   access_token        OAuth2 credential state                           *)
(*   calls               the calls awaiting the transport, oldest first    *)
(*   last                the outcome of the call that finished last        *)
(***************************************************************************)
VARIABLES client, oauth_token, oauth_token_secret, access_token, calls, last

vars == <<client, oauth_token, oauth_token_secret, access_token, calls, last>>

creds == <<oauth_token, oauth_token_secret, access_token>>

kind == client.provider.kind

\* An optional mapping argument that was not given (None).
NoneParams == <<<<NONE, NONE>>>>

\* Python's `d or {}` on an optional mapping.
OrEmpty(d) == IF d = NoneParams THEN <<>> ELSE d

\* Client._get_url
GetUrl(url) ==
    IF client.provider.base_url # NoUrl /\ ~IsAbsolute(url)
    THEN UrlJoin(client.provider.base_url, url)
    ELSE url

(***************************************************************************)
(* Escaping.  Strings of unreserved characters are left as they are; the   *)
(* values of the model that hold other characters are listed.              *)
(***************************************************************************)
MAPPING == "<mapping>"

IsStr(v) == v \notin {NONE, MAPPING}

\* Signature._escape: quote(s, safe="~")
Escape(v) ==
    CASE v = "a b" -> "a%20b"
      [] v = "http://cb" -> "http%3A%2F%2Fcb"
      [] OTHER -> v

\* urlencode's quote_plus(str(v))
QuotePlus(v) ==
    CASE v = "a b" -> "a+b"
      [] v = "http://cb" -> "http%3A%2F%2Fcb"
      [] v = NONE -> "None"
      [] v = MAPPING -> "%7B%7D"
      [] OTHER -> v

\* The keys the model uses, in the order sorted() puts them.
KeyOrder ==
    <<"Authorization", "X-Test", "oauth_callback", "oauth_consumer_key", "oauth_nonce",
      "oauth_signature", "oauth_signature_method", "oauth_timestamp", "oauth_token",
      "oauth_verifier", "oauth_version", "q", "scope">>

RECURSIVE SortedBy(_, _)
SortedBy(order, d) ==
    IF order = <<>> THEN <<>>
    ELSE (IF Has(d, order[1]) THEN <<<<order[1], Get(d, order[1])>>>> ELSE <<>>)
         \o SortedBy(Tail(order), d)

\* sorted(params.items())
Sorted(d) == SortedBy(KeyOrder, d)

\* urlencode(pairs)
UrlEncode(d) == [i \in 1..Len(d) |-> <<QuotePlus(d[i][1]), QuotePlus(d[i][2])>>]

Upper(method) ==
    CASE method = "get" -> "GET"
      [] method = "post" -> "POST"
      [] OTHER -> method

Signature(exc, key, base) == [exc |-> exc, key |-> key, base |-> base]

NoSignature == Signature(NONE, <<>>, <<>>)

\* HmacSha1Signature.sign.  HMAC-SHA1 and Base64 are taken as injective: the
\* signature is the pair (key, base string) it is computed from.
Sign(consumer_secret, method, url, token_secret, escape, params) ==
    IF escape /\ \E i \in 1..Len(params) : ~IsStr(params[i][2])
    THEN Signature("TypeError", <<>>, <<>>)
    ELSE LET query_string ==
                 IF escape
                 THEN Sorted([i \in 1..Len(params) |->
                                 <<Escape(params[i][1]), Escape(params[i][2])>>])
                 ELSE UrlEncode(Sorted(params))
             key == <<Escape(consumer_secret), "&">>
                    \o (IF Truthy(token_secret) THEN <<Escape(token_secret)>> ELSE <<>>)
         IN  Signature(NONE, key, <<Upper(method), url, query_string>>)

(***************************************************************************)
(* Requests put on the transport.                                          *)
(***************************************************************************)
Request(method, url, params, sig, headers, data) ==
    [method |-> method, url |-> url, params |-> params, sig |-> sig,
     headers |-> headers, data |-> data]

NoRequest == Request(NONE, NoUrl, NoneParams, NoSignature, NoneParams, NoneParams)

\* The value of oauth_signature in the parameters sent: the signature itself
\* is the sig field of the request.
SIG == "<oauth_signature>"

Prepared(exc, req, signed) == [exc |-> exc, req |-> req, signed |-> signed]

\* A slip in request(): the query of the URL is not looked at.
HasQueryUnchecked(url) == FALSE

\* urlsplit(url).query
HasQuery(url) == url.query # <<>>

\* A slip in request(): the held token is left out of the parameters.
OAuth1ParamsWithoutToken(params, nonce, timestamp) ==
    Update(<<<<"oauth_consumer_key", client.key>>,
             <<"oauth_nonce", nonce>>,
             <<"oauth_signature_method", "HMAC-SHA1">>,
             <<"oauth_timestamp", timestamp>>,
             <<"oauth_version", "1.0">>>>,
           OrEmpty(params))

\* The oauth parameters of a request, before it is signed.
OAuth1Params(params, nonce, timestamp) ==
    LET oparams == Update(<<<<"oauth_consumer_key", client.key>>,
                            <<"oauth_nonce", nonce>>,
                            <<"oauth_signature_method", "HMAC-SHA1">>,
                            <<"oauth_timestamp", timestamp>>,
                            <<"oauth_version", "1.0">>>>,
                          OrEmpty(params))
    IN  IF Truthy(oauth_token) THEN Put(oparams, "oauth_token", oauth_token) ELSE oparams

\* OAuth1Client.request up to the point where it hands over to _request.
OAuth1Request(method, url, params, headers, nonce, timestamp) ==
    LET oparams == OAuth1Params(params, nonce, timestamp)
        u == GetUrl(url)
        sig == Sign(client.secret, method, u, oauth_token_secret,
                    client.provider.escape, oparams)
    IN  IF HasQuery(u) THEN Prepared("ValueError", NoRequest, 0)
        ELSE IF sig.exc # NONE THEN Prepared(sig.exc, NoRequest, 1)
        ELSE Prepared(NONE,
                      Request(method, u, Put(oparams, "oauth_signature", SIG), sig,
                              headers, NoneParams),
                      1)

DefaultHeaders ==
    <<<<"Accept", "application/json">>,
      <<"Content-Type", "application/x-www-form-urlencoded;charset=UTF-8">>>>

\* dict.setdefault
SetDefault(d, k, v) == IF Has(d, k) THEN d ELSE Append(d, <<k, v>>)

\* A slip in request(): only the per-call token makes a bearer header.
OAuth2RequestPerCallTokenOnly(method, url, params, headers, token, data, held) ==
    LET u == GetUrl(url)
        h == IF OrEmpty(headers) = <<>> THEN DefaultHeaders ELSE headers
    IN  Prepared(NONE,
                 Request(method, u, params, NoSignature,
                         IF Truthy(token)
                         THEN SetDefault(h, "Authorization", "Bearer " \o token)
                         ELSE h,
                         data),
                 0)

\* A slip in request(): the held token is preferred to the per-call token.
OAuth2RequestHeldTokenFirst(method, url, params, headers, token, data, held) ==
    LET u == GetUrl(url)
        h == IF OrEmpty(headers) = <<>> THEN DefaultHeaders ELSE headers
        t == Or(held, token)
    IN  Prepared(NONE,
                 Request(method, u, params, NoSignature,
                         IF Truthy(t) THEN SetDefault(h, "Authorization", "Bearer " \o t)
                         ELSE h,
                         data),
                 0)

\* OAuth2Client.request up to the point where it hands over to _request.
OAuth2Request(method, url, params, headers, token, data, held) ==
    LET u == GetUrl(url)
        h == IF OrEmpty(headers) = <<>> THEN DefaultHeaders ELSE headers
        t == Or(token, held)
    IN  Prepared(NONE,
                 Request(method, u, params, NoSignature,
                         IF Truthy(t) THEN SetDefault(h, "Authorization", "Bearer " \o t)
                         ELSE h,
                         data),
                 0)


(***************************************************************************)
(* Calls.  A call that reaches the transport waits in `calls` with the     *)
(* request it sent; a call that finishes leaves its outcome in `last`.     *)
(***************************************************************************)
\* A verifier / code argument: a bare string, or a mapping (the callback's
\* query) that holds val under the client's shared key, or does not (ABSENT).
Shared(form, val) == [form |-> form, val |-> val]

NoShared == Shared("str", NONE)

NoArgs ==
    [method |-> NONE, url |-> NoUrl, params |-> NoneParams, headers |-> NoneParams,
     shared |-> NoShared, request_token |-> NONE, token |-> NONE,
     redirect_uri |-> NONE, payload |-> NoneParams,
     consumer_secret |-> NONE, oauth_token_secret |-> NONE, escape |-> FALSE]

\* A log record: its level, and the values formatted into its message.
LogRecord(level, method, url, data, options) ==
    [level |-> level, method |-> method, url |-> url, data |-> data, options |-> options]

\* The values of a mapping.
Values(d) == {d[i][2] : i \in 1..Len(d)}

\* A slip in _request: the options of the request are logged with it.
RequestLogWithOptions(req) ==
    LogRecord("debug", req.method, req.url, NoData,
              Values(OrEmpty(req.params)) \cup Values(OrEmpty(req.headers))
              \cup Values(OrEmpty(req.data)))

\* self.logger.debug("Request %s: %s", method, url)
RequestLog(req) == LogRecord("debug", req.method, req.url, NoData, {})

\* self.logger.warning("Error when getting the access token. ... %r", data)
WarningLog(data) == LogRecord("warning", NONE, NoUrl, data, {})

Call(op, args, req, raise_for_status) ==
    [op |-> op, args |-> args, req |-> req, raise_for_status |-> raise_for_status,
     log |-> <<RequestLog(req)>>]

\* The outcome of a call that reached the transport: the records the call
\* logged and the answer it read go with it.
Ended(c, resp, outcome) == [outcome EXCEPT !.log = c.log, !.answer = resp]

\* The User record: the attributes the providers of the model fill.
User(id, first_name, last_name) ==
    [id |-> id, first_name |-> first_name, last_name |-> last_name]

NoUser == User(NONE, NONE, NONE)

\* str.partition(" ") on the names of the model: the parts around the blank.
Partition(name) ==
    CASE name = "Ann Lee" -> <<"Ann", "Lee">>
      [] OTHER -> <<name, "">>

Parsed(exc, user) == [exc |-> exc, user |-> user]

\* User(**dict(self.user_parse(data))) with the provider's user_parse.
UserParse(provider, data) ==
    CASE provider = TwitterClient ->
             IF ~IsDict(data) THEN Parsed("AttributeError", NoUser)
             ELSE IF "name" \notin Keys(data.d) THEN Parsed("KeyError", NoUser)
             ELSE Parsed(NONE, User(Or(MapGet(data.d, "id"), MapGet(data.d, "user_id")),
                                    Partition(data.d["name"])[1],
                                    Partition(data.d["name"])[2]))
      [] provider = GithubClient ->
             IF ~IsDict(data) THEN Parsed("AttributeError", NoUser)
             ELSE Parsed(NONE, User(MapGet(data.d, "id"),
                                    Partition(Or(MapGet(data.d, "name"), ""))[1],
                                    Partition(Or(MapGet(data.d, "name"), ""))[2]))
      [] provider = Flickr ->
             IF ~IsDict(data) THEN Parsed("OAuthError", NoUser)
             ELSE Parsed(NONE, User(MapGet(data.d, "user_nsid"), "", ""))
      [] OTHER -> Parsed(NONE, NoUser)

\* outcome: "return", or the name of the exception raised; token: the token
\* returned; data: what _request handed back to the call, which is the data
\* the call returns or its exception carries; status: the status of the
\* answer read (0: none); sent, signed: the transport requests issued and the
\* signatures computed by the call; url: the URL returned.
Last(op, args, outcome, token, data, status, sent, signed, url) ==
    [op |-> op, args |-> args, outcome |-> outcome, token |-> token, data |-> data,
     status |-> status, sent |-> sent, signed |-> signed, url |-> url, user |-> NoUser,
     log |-> <<>>, sig |-> NoSignature, answer |-> NoResponse]

NoLast == Last(NONE, NoArgs, NONE, NONE, NoData, 0, 0, 0, NoUrl)

\* The outcome of a call that stopped before it reached the transport.
Stopped(op, args, exc, signed) == Last(op, args, exc, NONE, NoData, 0, 0, signed, NoUrl)

\* The outcome of a call that raises what _request raised.
Raised(op, exc, status, signed) ==
    Last(op, NoArgs, exc, NONE, NoData, status, 1, signed, NoUrl)

Remove(s, i) == SubSeq(s, 1, i - 1) \o SubSeq(s, i + 1, Len(s))

\* A slip in _request: the request is put on the transport twice.
TransmitTwice(call) == Append(Append(calls, call), call)

\* `await client.request(method, url, **options)`: the call puts its request
\* on the transport and waits for the answer.
Transmit(call) == Append(calls, call)

\* The caller is not awaiting a call and has taken the outcome of the last one.
Idle == calls = <<>> /\ last = NoLast

Signed == IF kind = "oauth1" THEN 1 ELSE 0

(***************************************************************************)
(* The inputs the callers draw from.                                       *)
(***************************************************************************)
Methods == {"GET", "post"}

RequestUrls ==
    {Url("", FALSE, <<"user">>, <<>>),
     Url("", TRUE, <<"search">>, <<<<"q", "1">>>>),
     Url("other.example", TRUE, <<"x">>, <<>>)}

CallerParams == {NoneParams, <<<<"q", "a b">>>>, <<<<"oauth_token", "vB">>>>}

CallerHeaders ==
    IF kind = "oauth1" THEN {NoneParams}
    ELSE {NoneParams, <<<<"X-Test", "1">>>>, <<<<"Authorization", "Basic b">>>>}

ExtraParams == {<<>>, <<<<"oauth_callback", "http://cb">>>>}

RequestTokens == {NONE, "", "vA", "vB"}

CallerTokens == {NONE, "vB"}

Verifiers == {Shared("str", "123"), Shared("map", "123"), Shared("map", ABSENT)}

Nonces == {"n1", "n2"}

Timestamps == {"1644067741"}

\* The constructor calls: provider class, token, secret, **params.
Constructions ==
    {<<TwitterClient, NONE, NONE, <<>>>>,
     <<TwitterClient, "tC", "sC", <<>>>>,
     <<TwitterClient, "tC", "sC", <<<<"scope", "s">>>>>>,
     <<Flickr, NONE, NONE, <<>>>>,
     <<Meetup, "tC", "sC", <<>>>>,
     <<TrelloClient, "tC", "sC", <<>>>>,
     <<GithubClient, NONE, NONE, <<>>>>,
     <<GithubClient, "tC", NONE, <<>>>>,
     <<GithubClient, "tC", NONE, <<<<"redirect_uri", "http://cb">>>>>>,
     <<StravaClient, NONE, NONE, <<>>>>}

\* OAuth1Client.__init__ / OAuth2Client.__init__
Init ==
    \E c \in Constructions :
        /\ client = [provider |-> c[1], key |-> "key", secret |-> "secret", params |-> c[4]]
        /\ oauth_token = IF c[1].kind = "oauth1" THEN c[2] ELSE NONE
        /\ oauth_token_secret = IF c[1].kind = "oauth1" THEN c[3] ELSE NONE
        /\ access_token = IF c[1].kind = "oauth2" THEN c[2] ELSE NONE
        /\ calls = <<>>
        /\ last = NoLast

(***************************************************************************)
(* request()                                                               *)
(***************************************************************************)
\* `await client.request(method, url, ...)` made by the caller on an OAuth1 client.
OAuth1RequestCall(method, url, params, headers, rfs, nonce, timestamp) ==
    LET args == [NoArgs EXCEPT !.method = method, !.url = url, !.params = params,
                               !.headers = headers]
        p == OAuth1Request(method, url, params, headers, nonce, timestamp)
    IN  /\ kind = "oauth1"
        /\ IF p.exc # NONE
           THEN /\ last' = Stopped("request", args, p.exc, p.signed)
                /\ UNCHANGED calls
           ELSE /\ calls' = Transmit(Call("request", args, p.req, rfs))
                /\ last' = NoLast
        /\ UNCHANGED <<client, creds>>

\* A slip in request(): the per-call token is kept as the held token.
OAuth2RequestCallStoringToken(method, url, params, headers, token, rfs) ==
    LET args == [NoArgs EXCEPT !.method = method, !.url = url, !.params = params,
                               !.headers = headers, !.token = token]
        p == OAuth2Request(method, url, params, headers, token, NoneParams, access_token)
    IN  /\ kind = "oauth2"
        /\ calls' = Transmit(Call("request", args, p.req, rfs))
        /\ last' = NoLast
        /\ access_token' = Or(token, access_token)
        /\ UNCHANGED <<client, oauth_token, oauth_token_secret>>

\* `await client.request(method, url, ...)` made by the caller on an OAuth2 client.
OAuth2RequestCall(method, url, params, headers, token, rfs) ==
    LET args == [NoArgs EXCEPT !.method = method, !.url = url, !.params = params,
                               !.headers = headers, !.token = token]
        p == OAuth2Request(method, url, params, headers, token, NoneParams, access_token)
    IN  /\ kind = "oauth2"
        /\ calls' = Transmit(Call("request", args, p.req, rfs))
        /\ last' = NoLast
        /\ UNCHANGED <<client, creds>>

\* A slip in request(): the credentials of the answer are taken over.
RequestDoneStoring(i, resp) ==
    LET c == calls[i]
        r == ReadResponse(resp, c.raise_for_status)
    IN  /\ c.op = "request"
        /\ calls' = Remove(calls, i)
        /\ last' = IF r.exc # NONE THEN Ended(c, resp, Raised("request", r.exc, resp.status, Signed))
                   ELSE Ended(c, resp, Last("request", NoArgs, "return", NONE, r.data, resp.status, 1,
                             Signed, NoUrl))
        /\ oauth_token' = IF kind = "oauth1" /\ r.exc = NONE /\ IsDict(r.data)
                          THEN Or(MapGet(r.data.d, "oauth_token"), "")
                          ELSE oauth_token
        /\ UNCHANGED <<client, oauth_token_secret, access_token>>

\* The transport answers a request(): _request returns or raises.
RequestDone(i, resp) ==
    LET c == calls[i]
        r == ReadResponse(resp, c.raise_for_status)
    IN  /\ c.op = "request"
        /\ calls' = Remove(calls, i)
        /\ last' = IF r.exc # NONE THEN Ended(c, resp, Raised("request", r.exc, resp.status, Signed))
                   ELSE Ended(c, resp, Last("request", NoArgs, "return", NONE, r.data, resp.status, 1,
                             Signed, NoUrl))
        /\ UNCHANGED <<client, creds>>


(***************************************************************************)
(* OAuth1: get_request_token, get_access_token, get_authorize_url          *)
(***************************************************************************)
\* A slip in the exchanges: the token is read from the secret's key.
ExchangedTokenFromSecret(data) == Or(MapGet(data.d, "oauth_token_secret"), "")

\* cast(str, data.get("oauth_token") or "")
ExchangedToken(data) == Or(MapGet(data.d, "oauth_token"), "")

\* A slip in the exchanges: the secret is read from the token's key.
ExchangedSecretFromToken(data) == MapGet(data.d, "oauth_token")

\* cast(str, data.get("oauth_token_secret"))
ExchangedSecret(data) == MapGet(data.d, "oauth_token_secret")

\* get_request_token up to its await.
GetRequestTokenCall(extra, nonce, timestamp) ==
    LET args == [NoArgs EXCEPT !.params = extra]
        params == Update(client.params, extra)
        p == OAuth1Request("GET", client.provider.request_token_url, params, NoneParams,
                           nonce, timestamp)
    IN  /\ kind = "oauth1"
        /\ IF p.exc # NONE
           THEN /\ last' = Stopped("get_request_token", args, p.exc, p.signed)
                /\ UNCHANGED calls
           ELSE /\ calls' = Transmit(Call("get_request_token", args, p.req, TRUE))
                /\ last' = NoLast
        /\ UNCHANGED <<client, creds>>

\* A slip in get_request_token: the secret of the answer is not stored with
\* its token.
GetRequestTokenDoneTokenOnly(i, resp) ==
    LET c == calls[i]
        r == ReadResponse(resp, c.raise_for_status)
    IN  /\ c.op = "get_request_token"
        /\ calls' = Remove(calls, i)
        /\ IF r.exc # NONE
           THEN /\ last' = Ended(c, resp, Raised("get_request_token", r.exc, resp.status, 1))
                /\ UNCHANGED oauth_token
           ELSE IF ~IsDict(r.data)
           THEN /\ last' = Ended(c, resp, Last("get_request_token", NoArgs, "return", "",
                                               r.data, resp.status, 1, 1, NoUrl))
                /\ UNCHANGED oauth_token
           ELSE /\ oauth_token' = ExchangedToken(r.data)
                /\ last' = Ended(c, resp, Last("get_request_token", NoArgs, "return",
                                               oauth_token', r.data, resp.status, 1, 1,
                                               NoUrl))
        /\ UNCHANGED <<client, oauth_token_secret, access_token>>

\* get_request_token from its await on.
GetRequestTokenDone(i, resp) ==
    LET c == calls[i]
        r == ReadResponse(resp, c.raise_for_status)
    IN  /\ c.op = "get_request_token"
        /\ calls' = Remove(calls, i)
        /\ IF r.exc # NONE
           THEN /\ last' = Ended(c, resp, Raised("get_request_token", r.exc, resp.status, 1))
                /\ UNCHANGED <<oauth_token, oauth_token_secret>>
           ELSE IF ~IsDict(r.data)
           THEN /\ last' = Ended(c, resp, Last("get_request_token", NoArgs, "return", "", r.data,
                                resp.status, 1, 1, NoUrl))
                /\ UNCHANGED <<oauth_token, oauth_token_secret>>
           ELSE /\ oauth_token' = ExchangedToken(r.data)
                /\ oauth_token_secret' = ExchangedSecret(r.data)
                /\ last' = Ended(c, resp, Last("get_request_token", NoArgs, "return", oauth_token', r.data,
                                resp.status, 1, 1, NoUrl))
        /\ UNCHANGED <<client, access_token>>

\* A slip in get_access_token: a mapping is passed on as it is.
ResolveNever(shared) == shared

\* The verifier / code given as a mapping holding the shared key is replaced
\* by the value under that key.
Resolve(shared) ==
    IF shared.form # "str" /\ shared.val # ABSENT THEN Shared("str", shared.val) ELSE shared

\* A verifier / code as a parameter value.
ParamValue(shared) == IF shared.form = "str" THEN shared.val ELSE MAPPING

\* A slip in the integrity check: the comparison is inverted.
TokenMismatchInverted(request_token) == Truthy(request_token) /\ oauth_token = request_token

\* `request_token and self.oauth_token != request_token`
TokenMismatch(request_token) == Truthy(request_token) /\ oauth_token # request_token

\* OAuth1 get_access_token up to its await.
OAuth1GetAccessTokenCall(verifier, request_token, headers, nonce, timestamp) ==
    LET args == [NoArgs EXCEPT !.shared = verifier, !.request_token = request_token,
                               !.headers = headers]
        oauth_verifier == Resolve(verifier)
        p == OAuth1Request("POST", client.provider.access_token_url,
                           <<<<"oauth_verifier", ParamValue(oauth_verifier)>>,
                             <<"oauth_token", request_token>>>>,
                           headers, nonce, timestamp)
    IN  /\ kind = "oauth1"
        /\ IF TokenMismatch(request_token)
           THEN /\ last' = Stopped("get_access_token", args, "OAuthError", 0)
                /\ UNCHANGED calls
           ELSE IF p.exc # NONE
           THEN /\ last' = Stopped("get_access_token", args, p.exc, p.signed)
                /\ UNCHANGED calls
           ELSE /\ calls' = Transmit(Call("get_access_token", args, p.req, TRUE))
                /\ last' = NoLast
        /\ UNCHANGED <<client, creds>>

\* OAuth1 get_access_token from its await on.
OAuth1GetAccessTokenDone(i, resp) ==
    LET c == calls[i]
        r == ReadResponse(resp, c.raise_for_status)
    IN  /\ kind = "oauth1"
        /\ c.op = "get_access_token"
        /\ calls' = Remove(calls, i)
        /\ IF r.exc # NONE
           THEN /\ last' = Ended(c, resp, Raised("get_access_token", r.exc, resp.status, 1))
                /\ UNCHANGED <<oauth_token, oauth_token_secret>>
           ELSE IF ~IsDict(r.data)
           THEN /\ last' = Ended(c, resp, Last("get_access_token", NoArgs, "OAuthError", NONE, r.data,
                                resp.status, 1, 1, NoUrl))
                /\ UNCHANGED <<oauth_token, oauth_token_secret>>
           ELSE /\ oauth_token' = ExchangedToken(r.data)
                /\ oauth_token_secret' = ExchangedSecret(r.data)
                /\ last' = Ended(c, resp, Last("get_access_token", NoArgs, "return", oauth_token', r.data,
                                resp.status, 1, 1, NoUrl))
        /\ UNCHANGED <<client, access_token>>

\* authorize_url + "?" + urlencode(params)
WithQuery(url, params) == Url(url.host, url.rooted, url.path, UrlEncode(params))

\* A slip in get_authorize_url: the parameters of the call are kept in the
\* client's own params.
OAuth1GetAuthorizeUrlKeepingParams(request_token, params) ==
    LET args == [NoArgs EXCEPT !.request_token = request_token, !.params = params]
        p == Update(Put(params, "oauth_token", Or(request_token, oauth_token)),
                    client.params)
    IN  /\ kind = "oauth1"
        /\ last' = Last("get_authorize_url", args, "return", NONE, NoData, 0, 0, 0,
                        WithQuery(client.provider.authorize_url, p))
        /\ client' = [client EXCEPT !.params = p]
        /\ UNCHANGED <<creds, calls>>

\* OAuth1Client.get_authorize_url
OAuth1GetAuthorizeUrl(request_token, params) ==
    LET args == [NoArgs EXCEPT !.request_token = request_token, !.params = params]
        p == Update(Put(params, "oauth_token", Or(request_token, oauth_token)),
                    client.params)
    IN  /\ kind = "oauth1"
        /\ last' = Last("get_authorize_url", args, "return", NONE, NoData, 0, 0, 0,
                        WithQuery(client.provider.authorize_url, p))
        /\ UNCHANGED <<client, creds, calls>>

(***************************************************************************)
(* OAuth2: get_access_token, get_authorize_url                             *)
(***************************************************************************)
\* A slip in get_access_token: the payload of the caller is laid over the
\* client's own id and secret.
PayloadCallerWins(code, redirect_uri, payload) ==
    LET p1 == Update(<<<<"client_id", client.key>>, <<"client_secret", client.secret>>>>,
                     SetDefault(payload, "grant_type", "authorization_code"))
        c == IF Truthy(ParamValue(code)) THEN Resolve(code) ELSE code
        p2 == Put(p1,
                  IF Get(p1, "grant_type") = "refresh_token" THEN "refresh_token" ELSE "code",
                  ParamValue(c))
        uri == Or(redirect_uri, Get(client.params, "redirect_uri"))
    IN  IF Truthy(uri) THEN Put(p2, "redirect_uri", uri) ELSE p2

\* The body get_access_token posts.
Payload(code, redirect_uri, payload) ==
    LET p1 == Update(SetDefault(payload, "grant_type", "authorization_code"),
                     <<<<"client_id", client.key>>, <<"client_secret", client.secret>>>>)
        c == IF Truthy(ParamValue(code)) THEN Resolve(code) ELSE code
        p2 == Put(p1,
                  IF Get(p1, "grant_type") = "refresh_token" THEN "refresh_token" ELSE "code",
                  ParamValue(c))
        uri == Or(redirect_uri, Get(client.params, "redirect_uri"))
    IN  IF Truthy(uri) THEN Put(p2, "redirect_uri", uri) ELSE p2

\* A slip in get_access_token: the held token is not cleared.
TokenKeptDuringExchange(held) == held

\* The value access_token holds while the exchange is under way.
TokenDuringExchange(held) == ""

\* OAuth2 get_access_token up to its await.
OAuth2GetAccessTokenCall(code, redirect_uri, headers, payload) ==
    LET args == [NoArgs EXCEPT !.shared = code, !.redirect_uri = redirect_uri,
                               !.headers = headers, !.payload = payload]
        held == TokenDuringExchange(access_token)
        p == OAuth2Request("POST", client.provider.access_token_url, NoneParams, headers,
                           NONE, Payload(code, redirect_uri, payload), held)
    IN  /\ kind = "oauth2"
        /\ access_token' = held
        /\ calls' = Transmit(Call("get_access_token", args, p.req, TRUE))
        /\ last' = NoLast
        /\ UNCHANGED <<client, oauth_token, oauth_token_secret>>

\* OAuth2 get_access_token from its await on.
OAuth2GetAccessTokenDone(i, resp) ==
    LET c == calls[i]
        r == ReadResponse(resp, c.raise_for_status)
    IN  /\ kind = "oauth2"
        /\ c.op = "get_access_token"
        /\ calls' = Remove(calls, i)
        /\ IF r.exc # NONE
           THEN /\ last' = Ended(c, resp, Raised("get_access_token", r.exc, resp.status, 0))
                /\ UNCHANGED access_token
           ELSE IF ~IsDict(r.data)
           THEN /\ last' = Ended(c, resp, Last("get_access_token", NoArgs, "return", "", r.data,
                                resp.status, 1, 0, NoUrl))
                /\ UNCHANGED access_token
           ELSE IF "access_token" \in Keys(r.data.d) /\ r.data.d["access_token"] = NULL
           THEN /\ last' = Ended(c, resp, Last("get_access_token", NoArgs, "AssertionError", NONE, r.data,
                                resp.status, 1, 0, NoUrl))
                /\ UNCHANGED access_token
           ELSE /\ access_token' = IF "access_token" \in Keys(r.data.d)
                                   THEN r.data.d["access_token"]
                                   ELSE access_token
                /\ last' = [Ended(c, resp, Last("get_access_token", NoArgs, "return",
                                          Or(access_token', ""), r.data, resp.status, 1, 0,
                                          NoUrl))
                            EXCEPT !.log = IF "access_token" \in Keys(r.data.d) THEN @
                                           ELSE Append(@, WarningLog(r.data))]
        /\ UNCHANGED <<client, oauth_token, oauth_token_secret>>

\* OAuth2Client.get_authorize_url
OAuth2GetAuthorizeUrl(params) ==
    LET args == [NoArgs EXCEPT !.params = params]
        p == Update(Update(client.params, params),
                    <<<<"client_id", client.key>>, <<"response_type", "code">>>>)
    IN  /\ kind = "oauth2"
        /\ last' = Last("get_authorize_url", args, "return", NONE, NoData, 0, 0, 0,
                        WithQuery(client.provider.authorize_url, p))
        /\ UNCHANGED <<client, creds, calls>>

(***************************************************************************)
(* user_info                                                               *)
(***************************************************************************)
\* A slip in user_info(): the declared URL is not looked at.
SupportsUserInfoAlways(provider) == TRUE

\* `self.user_info_url` as a condition: the provider declares a user-info URL.
SupportsUserInfo(provider) == provider.user_info_url # NoUrl

\* Client.user_info up to its await.
UserInfoCall(params, nonce, timestamp) ==
    LET args == [NoArgs EXCEPT !.params = params]
        url == client.provider.user_info_url
        p == IF kind = "oauth1"
             THEN OAuth1Request("GET", url, params, NoneParams, nonce, timestamp)
             ELSE OAuth2Request("GET", url, params, NoneParams, NONE, NoneParams,
                                access_token)
    IN  /\ IF ~SupportsUserInfo(client.provider)
           THEN /\ last' = Stopped("user_info", args, "NotImplementedError", 0)
                /\ UNCHANGED calls
           ELSE IF p.exc # NONE
           THEN /\ last' = Stopped("user_info", args, p.exc, p.signed)
                /\ UNCHANGED calls
           ELSE /\ calls' = Transmit(Call("user_info", args, p.req, TRUE))
                /\ last' = NoLast
        /\ UNCHANGED <<client, creds>>

\* Client.user_info from its await on.
UserInfoDone(i, resp) ==
    LET c == calls[i]
        r == ReadResponse(resp, c.raise_for_status)
        u == UserParse(client.provider, r.data)
    IN  /\ c.op = "user_info"
        /\ calls' = Remove(calls, i)
        /\ last' = IF r.exc # NONE THEN Ended(c, resp, Raised("user_info", r.exc, resp.status, Signed))
                   ELSE IF u.exc # NONE
                   THEN Ended(c, resp, Last("user_info", NoArgs, u.exc, NONE, r.data, resp.status, 1,
                             Signed, NoUrl))
                   ELSE Ended(c, resp, [Last("user_info", NoArgs, "return", NONE, r.data, resp.status, 1,
                              Signed, NoUrl) EXCEPT !.user = u.user])
        /\ UNCHANGED <<client, creds>>

(***************************************************************************)
(* The signature engine called on its own.                                 *)
(***************************************************************************)
\* The URLs handed to sign(): without and with a query string.
SignUrls ==
    {Url("a", TRUE, <<"b">>, <<>>),
     Url("a", TRUE, <<"b">>, <<<<"x", "1">>>>),
     Url("a", TRUE, <<"c">>, <<>>)}

SignParams == {<<>>, <<<<"q", "a b">>, <<"oauth_nonce", "n1">>>>}

TokenSecrets == {NONE, "sC"}

\* HmacSha1Signature().sign(consumer_secret, method, url, oauth_token_secret,
\*                          escape=escape, **params)
SignCall(consumer_secret, method, url, token_secret, escape, params) ==
    LET args == [NoArgs EXCEPT !.method = method, !.url = url, !.params = params,
                               !.consumer_secret = consumer_secret,
                               !.oauth_token_secret = token_secret, !.escape = escape]
        sig == Sign(consumer_secret, method, url, token_secret, escape, params)
    IN  /\ last' = [Last("sign", args, IF sig.exc # NONE THEN sig.exc ELSE "return", NONE,
                         NoData, 0, 0, 1, NoUrl) EXCEPT !.sig = sig]
        /\ UNCHANGED <<client, creds, calls>>

(***************************************************************************)
(* The value of the signature.  Sign above keeps the key and the base     *)
(* string apart; HmacSha1Sign computes what sign() returns, character by   *)
(* character: strings are sequences of characters, bytes are numbers.      *)
(***************************************************************************)
\* The printable ASCII characters of codes 32..95 and 97..126.
AsciiLow == " !\"#$%&'()*+,-./0123456789:;<=>?@ABCDEFGHIJKLMNOPQRSTUVWXYZ[\\]^_"

AsciiHigh == "abcdefghijklmnopqrstuvwxyz{|}~"

Char(s, i) == SubSeq(s, i, i)

\* The functions that work character by character split their string in two
\* halves and join the two results.
FirstHalf(s) == SubSeq(s, 1, Len(s) \div 2)

SecondHalf(s) == SubSeq(s, (Len(s) \div 2) + 1, Len(s))

Within(c, s) == \E i \in 1..Len(s) : Char(s, i) = c

\* ord(c)
Ord(c) ==
    LET Index(s) == CHOOSE i \in 1..Len(s) : Char(s, i) = c
    IN  IF Within(c, AsciiLow) THEN 31 + Index(AsciiLow) ELSE 96 + Index(AsciiHigh)

\* s.encode()
RECURSIVE Encode(_)
Encode(s) ==
    IF s = "" THEN <<>>
    ELSE IF Len(s) = 1 THEN <<Ord(s)>>
    ELSE Encode(FirstHalf(s)) \o Encode(SecondHalf(s))

Unreserved == "ABCDEFGHIJKLMNOPQRSTUVWXYZabcdefghijklmnopqrstuvwxyz0123456789_.-~"

\* "%{:02X}".format(ord(c))
PercentEncoded(c) ==
    LET HexDigits == "0123456789ABCDEF"
    IN  "%" \o Char(HexDigits, (Ord(c) \div 16) + 1) \o Char(HexDigits, (Ord(c) % 16) + 1)

\* quote(s, safe="~")
RECURSIVE Quote(_)
Quote(s) ==
    IF s = "" THEN ""
    ELSE IF Len(s) = 1 THEN (IF Within(s, Unreserved) THEN s ELSE PercentEncoded(s))
    ELSE Quote(FirstHalf(s)) \o Quote(SecondHalf(s))

\* quote_plus(s)
RECURSIVE QuotePlusStr(_)
QuotePlusStr(s) ==
    IF s = "" THEN ""
    ELSE IF Len(s) = 1
    THEN (IF s = " " THEN "+" ELSE IF Within(s, Unreserved) THEN s ELSE PercentEncoded(s))
    ELSE QuotePlusStr(FirstHalf(s)) \o QuotePlusStr(SecondHalf(s))

\* s < t for two strings
RECURSIVE StrLess(_, _)
StrLess(s, t) ==
    IF t = "" THEN FALSE
    ELSE IF s = "" THEN TRUE
    ELSE IF Char(s, 1) = Char(t, 1) THEN StrLess(Tail(s), Tail(t))
    ELSE Ord(Char(s, 1)) < Ord(Char(t, 1))

\* sorted(pairs)
RECURSIVE SortedPairs(_)
SortedPairs(d) ==
    IF d = <<>> THEN <<>>
    ELSE LET PairLess(p, q) == StrLess(p[1], q[1]) \/ (p[1] = q[1] /\ StrLess(p[2], q[2]))
             m == CHOOSE i \in 1..Len(d) : \A j \in 1..Len(d) : ~PairLess(d[j], d[i])
         IN  <<d[m]>> \o SortedPairs(SubSeq(d, 1, m - 1) \o SubSeq(d, m + 1, Len(d)))

\* "&".join(k + "=" + v for k, v in pairs)
RECURSIVE JoinPairs(_)
JoinPairs(d) ==
    IF d = <<>> THEN ""
    ELSE d[1][1] \o "=" \o d[1][2] \o (IF Len(d) > 1 THEN "&" ELSE "") \o JoinPairs(Tail(d))

\* s.upper()
RECURSIVE UpperStr(_)
UpperStr(s) ==
    IF s = "" THEN ""
    ELSE IF Len(s) = 1 THEN (IF Ord(s) \in 97..122 THEN Char(AsciiLow, Ord(s) - 63) ELSE s)
    ELSE UpperStr(FirstHalf(s)) \o UpperStr(SecondHalf(s))

\* SHA-1 works on 32-bit words: a word is the pair of its 16-bit halves, high
\* half first, so that no sum or product leaves the 32-bit integers of TLC.
Half == 65536

\* a & b on halves
RECURSIVE And16(_, _)
And16(a, b) ==
    IF a = 0 \/ b = 0 THEN 0 ELSE ((a % 2) * (b % 2)) + 2 * And16(a \div 2, b \div 2)

\* a ^ b on halves
Xor16(a, b) == a + b - 2 * And16(a, b)

\* a & b, a ^ b, ~a, a + b on words
WAnd(a, b) == <<And16(a[1], b[1]), And16(a[2], b[2])>>
WXor(a, b) == <<Xor16(a[1], b[1]), Xor16(a[2], b[2])>>
WNot(a) == <<Half - 1 - a[1], Half - 1 - a[2]>>
WAdd(a, b) ==
    <<(a[1] + b[1] + ((a[2] + b[2]) \div Half)) % Half, (a[2] + b[2]) % Half>>

\* a rotated left by n bits
Rotl(a, n) ==
    LET w == IF n >= 16 THEN <<a[2], a[1]>> ELSE a
        m == n % 16
        p == 2 ^ m
        q == 2 ^ (16 - m)
    IN  <<((w[1] * p) % Half) + (w[2] \div q), ((w[2] * p) % Half) + (w[1] \div q)>>

\* The message with the padding of SHA-1.
Padded(msg) ==
    LET bits == 8 * Len(msg)
        z == (119 - (Len(msg) % 64)) % 64
    IN  msg \o <<128>> \o [i \in 1..z |-> 0] \o <<0, 0, 0, 0>>
        \o <<(bits \div 16777216) % 256, (bits \div 65536) % 256,
             (bits \div 256) % 256, bits % 256>>

\* The message schedule of a block: its 16 words, extended to n words, the
\* first half of the missing words before the second.
RECURSIVE Schedule(_, _)
Schedule(w, n) ==
    LET t == Len(w) + 1
    IN  IF t > n THEN w
        ELSE IF t = n
        THEN Append(w, Rotl(WXor(WXor(w[t - 3], w[t - 8]), WXor(w[t - 14], w[t - 16])), 1))
        ELSE Schedule(Schedule(w, (t + n) \div 2), n)

BlockWords(block) ==
    Schedule([i \in 1..16 |-> <<block[4 * i - 3] * 256 + block[4 * i - 2],
                                block[4 * i - 1] * 256 + block[4 * i]>>], 80)

\* The function and the constant of round t.
F(t, b, c, d) ==
    IF t < 20 THEN WAdd(WAnd(b, c), WAnd(WNot(b), d))
    ELSE IF t < 40 THEN WXor(WXor(b, c), d)
    ELSE IF t < 60 THEN WAdd(WAnd(b, c), WAnd(d, WXor(b, c)))
    ELSE WXor(WXor(b, c), d)

K(t) ==
    IF t < 20 THEN <<23170, 31129>>
    ELSE IF t < 40 THEN <<28377, 60321>>
    ELSE IF t < 60 THEN <<36635, 48348>>
    ELSE <<51810, 49622>>

\* One round of the compression function on the registers s.
Round(t, s, w) ==
    <<WAdd(WAdd(WAdd(WAdd(Rotl(s[1], 5), F(t, s[2], s[3], s[4])), s[5]), K(t)), w[t + 1]),
      s[1], Rotl(s[2], 30), s[3], s[4]>>

\* The working registers after each round, up to round n: regs[t + 1] holds
\* them after t rounds.  The first half of the missing rounds is done before
\* the second.
RECURSIVE Rounds(_, _, _)
Rounds(regs, n, w) ==
    LET t == Len(regs) - 1
    IN  IF t >= n THEN regs
        ELSE IF t + 1 = n THEN Append(regs, Round(t, regs[t + 1], w))
        ELSE Rounds(Rounds(regs, (t + 1 + n) \div 2, w), n, w)

Compress(h, block) ==
    LET s == Rounds(<<h>>, 80, BlockWords(block))[81]
    IN  <<WAdd(h[1], s[1]), WAdd(h[2], s[2]), WAdd(h[3], s[3]), WAdd(h[4], s[4]),
          WAdd(h[5], s[5])>>

\* The hash value after the blocks of m.
RECURSIVE Blocks(_, _)
Blocks(h, m) ==
    IF m = <<>> THEN h ELSE Blocks(Compress(h, SubSeq(m, 1, 64)), SubSeq(m, 65, Len(m)))

\* sha1(msg).digest()
Sha1(msg) ==
    LET H0 == <<<<26437, 8961>>, <<61389, 43913>>, <<39098, 56574>>, <<4146, 21622>>,
                <<50130, 57840>>>>
        h == Blocks(H0, Padded(msg))
    IN  [i \in 1..20 |->
            LET w == h[((i - 1) \div 4) + 1]
                k == (i - 1) % 4
            IN  IF k = 0 THEN w[1] \div 256
                ELSE IF k = 1 THEN w[1] % 256
                ELSE IF k = 2 THEN w[2] \div 256
                ELSE w[2] % 256]

\* hmac.new(key, msg, sha1).digest()
Hmac(key, msg) ==
    LET k0 == IF Len(key) > 64 THEN Sha1(key) ELSE key
        k == k0 \o [i \in 1..(64 - Len(k0)) |-> 0]
        ipad == [i \in 1..64 |-> Xor16(k[i], 54)]
        opad == [i \in 1..64 |-> Xor16(k[i], 92)]
    IN  Sha1(opad \o Sha1(ipad \o msg))

\* base64.b64encode(bytes).decode()
RECURSIVE B64Encode(_)
B64Encode(b) ==
    IF b = <<>> THEN ""
    ELSE LET B64 == "ABCDEFGHIJKLMNOPQRSTUVWXYZabcdefghijklmnopqrstuvwxyz0123456789+/"
             n == IF Len(b) >= 3 THEN 3 ELSE Len(b)
             v == b[1] * 65536 + (IF n > 1 THEN b[2] * 256 ELSE 0) + (IF n > 2 THEN b[3] ELSE 0)
         IN  Char(B64, (v \div 262144) + 1) \o Char(B64, ((v \div 4096) % 64) + 1)
             \o (IF n > 1 THEN Char(B64, ((v \div 64) % 64) + 1) ELSE "=")
             \o (IF n > 2 THEN Char(B64, (v % 64) + 1) ELSE "=")
             \o B64Encode(SubSeq(b, n + 1, Len(b)))

\* A slip in sign(): the token secret is left out of the key.
KeyWithoutTokenSecret(consumer_secret, token_secret) == Quote(consumer_secret) \o "&"

\* The key of the HMAC.
Key(consumer_secret, token_secret) ==
    Quote(consumer_secret) \o "&"
    \o (IF Truthy(token_secret) THEN Quote(token_secret) ELSE "")

\* HmacSha1Signature.sign, for parameters that are strings.
HmacSha1Sign(consumer_secret, method, url, token_secret, escape, params) ==
    LET query == [i \in 1..Len(params) |-> <<Quote(params[i][1]), Quote(params[i][2])>>]
        sorted == SortedPairs(params)
        query_string ==
            IF escape THEN JoinPairs(SortedPairs(query))
            ELSE JoinPairs([i \in 1..Len(sorted) |->
                               <<QuotePlusStr(sorted[i][1]), QuotePlusStr(sorted[i][2])>>])
        signature == Quote(UpperStr(method)) \o "&" \o Quote(url) \o "&" \o Quote(query_string)
        key == Key(consumer_secret, token_secret)
    IN  B64Encode(Hmac(Encode(key), Encode(signature)))

\* The parameters of tests/test_signature.py, in the order of the call.
TestParams ==
    <<<<"oauth_consumer_key", "blablabla">>, <<"oauth_nonce", "blublublu">>,
      <<"oauth_signature_method", "HMAC-SHA1">>, <<"oauth_timestamp", "1644067741">>,
      <<"oauth_version", "1.0">>, <<"tweet_mode", "extended">>,
      <<"oauth_token", "bliblibli">>>>

ConsumerSecrets == {"consumer_secret", "consumer secret"}

HmacMethods == {"GET", "get", "POST"}

HmacUrls == {"https://site.com/endpoint.json", "https://site.com/endpoint.json?a=b"}

HmacTokenSecrets == {NONE, "", "oauth_token_secret"}

HmacParams == {<<>>, <<<<"tweet_mode", "a b/~*">>, <<"oauth_nonce", "n1">>>>, TestParams}

\* HmacSha1Signature().sign(...) with strings for arguments: the call returns
\* the signature.
HmacSha1SignCall(consumer_secret, method, url, token_secret, escape, params) ==
    LET args == [NoArgs EXCEPT !.method = method, !.url = url, !.params = params,
                               !.consumer_secret = consumer_secret,
                               !.oauth_token_secret = token_secret, !.escape = escape]
    IN  /\ last = NoLast
        /\ last' = Last("sign", args, "return",
                        HmacSha1Sign(consumer_secret, method, url, token_secret, escape,
                                     params),
                        NoData, 0, 0, 1, NoUrl)
        /\ UNCHANGED <<client, creds, calls>>

\* The caller takes the outcome of the call it awaited and goes on.
CallerContinues ==
    /\ last # NoLast
    /\ last' = NoLast
    /\ UNCHANGED <<client, creds, calls>>

(***************************************************************************)
(* The client used as documented: one call at a time.                      *)
(***************************************************************************)
Payloads ==
    {<<>>, <<<<"grant_type", "refresh_token">>>>,
     <<<<"client_id", "other">>, <<"client_secret", "other">>>>}

\* What the transport may answer to the client's resource requests.
Answers == IF kind = "oauth1" THEN OAuth1ResourceResponses ELSE OAuth2ResourceResponses

\* request() is called with the default raise_for_status.
RaiseForStatus == {FALSE}

RedirectUris == {NONE, "http://cb"}

Next ==
    \/ /\ Idle
       /\ \E method \in Methods, url \in RequestUrls, params \in CallerParams,
             headers \in CallerHeaders, rfs \in RaiseForStatus, nonce \in Nonces,
             timestamp \in Timestamps :
             OAuth1RequestCall(method, url, params, headers, rfs, nonce, timestamp)
    \/ /\ Idle
       /\ \E method \in Methods, url \in RequestUrls, params \in CallerParams,
             headers \in CallerHeaders, token \in CallerTokens, rfs \in RaiseForStatus :
             OAuth2RequestCall(method, url, params, headers, token, rfs)
    \/ /\ Idle
       /\ \E extra \in ExtraParams, nonce \in Nonces, timestamp \in Timestamps :
             GetRequestTokenCall(extra, nonce, timestamp)
    \/ /\ Idle
       /\ \E verifier \in Verifiers, request_token \in RequestTokens,
             headers \in CallerHeaders, nonce \in Nonces, timestamp \in Timestamps :
             OAuth1GetAccessTokenCall(verifier, request_token, headers, nonce, timestamp)
    \/ /\ Idle
       /\ \E request_token \in RequestTokens, params \in ExtraParams :
             OAuth1GetAuthorizeUrl(request_token, params)
    \/ /\ Idle
       /\ \E code \in Verifiers, redirect_uri \in RedirectUris, headers \in CallerHeaders,
             payload \in Payloads :
             OAuth2GetAccessTokenCall(code, redirect_uri, headers, payload)
    \/ /\ Idle
       /\ \E params \in ExtraParams : OAuth2GetAuthorizeUrl(params)
    \/ /\ Idle
       /\ \E params \in CallerParams, nonce \in Nonces, timestamp \in Timestamps :
             UserInfoCall(params, nonce, timestamp)
    \/ /\ Idle
       /\ \E method \in Methods, url \in SignUrls, token_secret \in TokenSecrets,
             escape \in BOOLEAN, params \in SignParams :
             SignCall(client.secret, method, url, token_secret, escape, params)
    \/ \E i \in 1..Len(calls), resp \in Answers : RequestDone(i, resp)
    \/ \E i \in 1..Len(calls), resp \in OAuth1Responses : GetRequestTokenDone(i, resp)
    \/ \E i \in 1..Len(calls), resp \in OAuth1Responses : OAuth1GetAccessTokenDone(i, resp)
    \/ \E i \in 1..Len(calls), resp \in OAuth2Responses : OAuth2GetAccessTokenDone(i, resp)
    \/ \E i \in 1..Len(calls), resp \in Answers : UserInfoDone(i, resp)
    \/ CallerContinues

Spec == Init /\ [][Next]_vars

(***************************************************************************)
(* The client used by several flows at once: a call may begin while others *)
(* await the transport, and the answers come in any order.                 *)
(***************************************************************************)
\* The calls that may await the transport at once.
MaxCalls == 2

\* What the token endpoint answers to the overlapping exchanges: two token
\* pairs that differ, a mapping without secret, a refusal, an error status,
\* a failure of the transport.
ExchangeAnswers ==
    IF kind = "oauth1"
    THEN {Response(200, "text", Body("form", <<<<"oauth_token", "vA">>,
                                               <<"oauth_token_secret", "vA">>>>)),
          Response(200, "text", Body("form", <<<<"oauth_token", "vB">>,
                                               <<"oauth_token_secret", "vB">>>>)),
          Response(200, "text", Body("form", <<<<"oauth_token", "vA">>>>)),
          Response(200, "text", Body("form", <<<<"error", "denied">>>>)),
          Response(500, "text", TokenBody("oauth1", "form")),
          TransportFailure}
    ELSE {Response(200, "json", Body("object", <<<<"access_token", "vA">>>>)),
          Response(200, "json", Body("object", <<<<"access_token", "vB">>>>)),
          Response(200, "json", Body("object", <<<<"error", "denied">>>>)),
          Response(200, "text", Body("form", <<>>)),
          Response(500, "json", TokenBody("oauth2", "object")),
          TransportFailure}

MayBegin == Len(calls) < MaxCalls

ConcurrentNext ==
    \/ /\ MayBegin
       /\ \E nonce \in Nonces, timestamp \in Timestamps :
             GetRequestTokenCall(<<>>, nonce, timestamp)
    \/ /\ MayBegin
       /\ \E request_token \in {NONE, "vA"}, nonce \in Nonces, timestamp \in Timestamps :
             OAuth1GetAccessTokenCall(Shared("str", "123"), request_token, NoneParams,
                                      nonce, timestamp)
    \/ /\ MayBegin
       /\ OAuth2GetAccessTokenCall(Shared("str", "123"), NONE, NoneParams, <<>>)
    \/ /\ MayBegin
       /\ \E token \in CallerTokens :
             OAuth2RequestCall("GET", Url("", FALSE, <<"user">>, <<>>), NoneParams,
                               NoneParams, token, FALSE)
    \/ \E i \in 1..Len(calls), resp \in ExchangeAnswers : GetRequestTokenDone(i, resp)
    \/ \E i \in 1..Len(calls), resp \in ExchangeAnswers : OAuth1GetAccessTokenDone(i, resp)
    \/ \E i \in 1..Len(calls), resp \in ExchangeAnswers : OAuth2GetAccessTokenDone(i, resp)
    \/ \E i \in 1..Len(calls), resp \in ExchangeAnswers : RequestDone(i, resp)

ConcurrentSpec == Init /\ [][ConcurrentNext]_vars

(***************************************************************************)
(* The signer alone: sign() called with arguments drawn from small sets.   *)
(***************************************************************************)
HmacInit ==
    /\ client = [provider |-> TwitterClient, key |-> "key", secret |-> "secret",
                 params |-> <<>>]
    /\ oauth_token = NONE
    /\ oauth_token_secret = NONE
    /\ access_token = NONE
    /\ calls = <<>>
    /\ last = NoLast

HmacNext ==
    \/ \E consumer_secret \in ConsumerSecrets, method \in HmacMethods, url \in HmacUrls,
          token_secret \in HmacTokenSecrets, escape \in BOOLEAN, params \in HmacParams :
           HmacSha1SignCall(consumer_secret, method, url, token_secret, escape, params)
    \/ CallerContinues

HmacSpec == HmacInit /\ [][HmacNext]_vars


(***************************************************************************)
(* Properties.                                                             *)
(***************************************************************************)
\* The step begins a call: the call reaches the transport, or stops before.
BeginsCall ==
    \/ Len(calls') > Len(calls)
    \/ calls' = calls /\ last = NoLast /\ last' # NoLast

\* The operation and the arguments of the call the step begins.
BegunOp == IF Len(calls') > Len(calls) THEN calls'[Len(calls')].op ELSE last'.op

BegunArgs == IF Len(calls') > Len(calls) THEN calls'[Len(calls')].args ELSE last'.args

\* The step ends a call that reached the transport.
EndsCall == Len(calls') < Len(calls)

ExchangeOps == {"get_request_token", "get_access_token"}

\* C1: on an OAuth1 client, get_access_token called with a request_token that
\* differs from the held oauth_token raises OAuthError without a transport
\* request, and the held token and secret stay as they are.
C1_MismatchRaisesBeforeTransport ==
    [][(/\ BeginsCall
        /\ kind = "oauth1"
        /\ BegunOp = "get_access_token"
        /\ Truthy(BegunArgs.request_token)
        /\ BegunArgs.request_token # oauth_token)
       => (/\ last'.outcome = "OAuthError"
           /\ last'.sent = 0
           /\ calls' = calls
           /\ oauth_token' = oauth_token
           /\ oauth_token_secret' = oauth_token_secret)]_vars

C1_Witness ==
    /\ kind = "oauth1"
    /\ last.op = "get_access_token"
    /\ last.outcome = "OAuthError"
    /\ last.sent = 0
    /\ last.args.request_token = "vB"
    /\ oauth_token = "vA"
    /\ calls = <<>>

\* C2: after get_request_token returns a mapping that holds oauth_token = T
\* and oauth_token_secret = S, the client holds token T and secret S.
C2_RequestTokenStored ==
    (/\ kind = "oauth1"
     /\ last.op = "get_request_token"
     /\ last.outcome = "return"
     /\ IsDict(last.data)
     /\ {"oauth_token", "oauth_token_secret"} \subseteq Keys(last.data.d))
    => (/\ oauth_token = last.data.d["oauth_token"]
        /\ oauth_token_secret = last.data.d["oauth_token_secret"]
        /\ last.token = last.data.d["oauth_token"])

C2_Witness ==
    /\ kind = "oauth1"
    /\ last.op = "get_request_token"
    /\ last.outcome = "return"
    /\ IsDict(last.data)
    /\ {"oauth_token", "oauth_token_secret"} \subseteq Keys(last.data.d)
    /\ oauth_token = "vA"
    /\ oauth_token_secret = "vB"

C4_OnlyExchangesMutate ==
    [][(oauth_token' # oauth_token \/ oauth_token_secret' # oauth_token_secret)
       => (/\ kind = "oauth1"
           /\ EndsCall
           /\ last'.op \in ExchangeOps
           /\ last'.outcome = "return")]_vars

C4_Witness ==
    /\ kind = "oauth1"
    /\ last.op \in {"request", "user_info"}
    /\ last.outcome = "return"
    /\ IsDict(last.data)
    /\ "oauth_token" \in Keys(last.data.d)
    /\ last.data.d["oauth_token"] = "vB"
    /\ oauth_token = "vA"


\* C5: an OAuth2 get_access_token whose response mapping holds access_token = T
\* returns T with that mapping and stores T; and a request() made without a
\* per-call token and without an Authorization header of the caller, while a
\* token is held, carries "Authorization: Bearer <held token>".
C5_TokenStoredAndSent ==
    /\ (/\ kind = "oauth2"
        /\ last.op = "get_access_token"
        /\ last.outcome = "return"
        /\ IsDict(last.data)
        /\ "access_token" \in Keys(last.data.d))
       => (/\ last.token = last.data.d["access_token"]
           /\ access_token = last.data.d["access_token"])
    /\ \A i \in 1..Len(calls) :
          (/\ kind = "oauth2"
           /\ calls[i].op = "request"
           /\ ~Truthy(calls[i].args.token)
           /\ ~Has(calls[i].args.headers, "Authorization")
           /\ Truthy(access_token))
          => Get(calls[i].req.headers, "Authorization") = "Bearer " \o access_token

C5_Witness ==
    /\ kind = "oauth2"
    /\ access_token = "vA"
    /\ Len(calls) = 1
    /\ calls[1].op = "request"
    /\ calls[1].args.token = NONE
    /\ calls[1].args.headers = <<<<"X-Test", "1">>>>
    /\ Get(calls[1].req.headers, "Authorization") = "Bearer vA"

\* C6: an OAuth2 get_access_token to which _request hands back a mapping
\* without access_token does not raise: it returns the empty token with the
\* mapping.
C6_MissingTokenReturnsEmpty ==
    (/\ kind = "oauth2"
     /\ last.op = "get_access_token"
     /\ IsDict(last.data)
     /\ "access_token" \notin Keys(last.data.d))
    => (/\ last.outcome = "return"
        /\ last.token = "")

C6_Witness ==
    /\ kind = "oauth2"
    /\ last.op = "get_access_token"
    /\ last.outcome = "return"
    /\ last.token = ""
    /\ IsDict(last.data)
    /\ Keys(last.data.d) = {"error"}

\* C7: an exchange step (get_request_token, OAuth1 or OAuth2 get_access_token)
\* that reads an answer whose status is not 2xx raises OAuthError and stores
\* no credential.
C7_Non2xxRaises ==
    [][(/\ EndsCall
        /\ last'.op \in ExchangeOps
        /\ last'.status # 0
        /\ last'.status \notin 200..299)
       => (/\ last'.outcome = "OAuthError"
           /\ oauth_token' = oauth_token
           /\ oauth_token_secret' = oauth_token_secret
           /\ access_token' = access_token)]_vars

\* The mapping holds both keys of a token pair.
HoldsTokenPair(data) ==
    IsDict(data) /\ {"oauth_token", "oauth_token_secret"} \subseteq Keys(data.d)

\* C8: get_request_token raises OAuthError when the parsed body (of an answer
\* with a 2xx status) lacks oauth_token or oauth_token_secret, and leaves the
\* held token and secret as they are.
C8_RequestTokenMissingKeysRaises ==
    [][(/\ EndsCall
        /\ last'.op = "get_request_token"
        /\ last'.status \in 200..299
        /\ last'.data # NoData
        /\ ~HoldsTokenPair(last'.data))
       => (/\ last'.outcome = "OAuthError"
           /\ oauth_token' = oauth_token
           /\ oauth_token_secret' = oauth_token_secret)]_vars

\* C9: OAuth1 get_access_token raises OAuthError carrying the body when the
\* parsed body (of an answer with a 2xx status) lacks oauth_token or
\* oauth_token_secret, and leaves the held token and secret as they are.
C9_AccessTokenMissingKeysRaises ==
    [][(/\ EndsCall
        /\ kind = "oauth1"
        /\ last'.op = "get_access_token"
        /\ last'.status \in 200..299
        /\ last'.data # NoData
        /\ ~HoldsTokenPair(last'.data))
       => (/\ last'.outcome = "OAuthError"
           /\ oauth_token' = oauth_token
           /\ oauth_token_secret' = oauth_token_secret)]_vars

\* The URL a call of request() or user_info() resolves.
ResolvedUrl(op, args) ==
    GetUrl(IF op = "user_info" THEN client.provider.user_info_url ELSE args.url)

\* C10: on an OAuth1 client a request whose resolved URL holds a query string
\* raises ValueError before a signature is computed and before a transport
\* request is issued, and the credential state stays as it is.
C10_QueryInUrlRejected ==
    [][(/\ BeginsCall
        /\ kind = "oauth1"
        /\ BegunOp \in {"request", "user_info"}
        /\ ResolvedUrl(BegunOp, BegunArgs).query # <<>>)
       => (/\ last'.outcome = "ValueError"
           /\ last'.signed = 0
           /\ last'.sent = 0
           /\ calls' = calls
           /\ oauth_token' = oauth_token
           /\ oauth_token_secret' = oauth_token_secret)]_vars

C10_Witness ==
    /\ kind = "oauth1"
    /\ last.op = "request"
    /\ last.outcome = "ValueError"
    /\ last.args.url.query # <<>>
    /\ last.signed = 0
    /\ last.sent = 0
    /\ calls = <<>>

\* The mapping without the key k.
Without(d, k) == SelectSeq(d, LAMBDA p : p[1] # k)

RequiredKeys ==
    {"oauth_consumer_key", "oauth_nonce", "oauth_signature_method", "oauth_timestamp",
     "oauth_version"}

\* The params the caller of the call gave: those of request() and user_info(),
\* and for get_request_token the constructor's **params under the call's own.
CallerSupplied(c) ==
    IF c.op = "get_request_token" THEN Update(client.params, c.args.params)
    ELSE IF c.op \in {"request", "user_info"} THEN OrEmpty(c.args.params)
    ELSE <<>>

\* C11: every request an OAuth1 client has on the transport carries the five
\* required oauth keys, oauth_token with the held token when one is held, every
\* key the caller gave (with the caller's value, except oauth_token when a
\* token is held), and oauth_signature as the key added last; and the
\* signature is the one computed from the method sent, the URL sent and the
\* parameters sent other than oauth_signature.
C11_SignedEqualsSent ==
    \A i \in 1..Len(calls) :
        kind = "oauth1" =>
            LET req == calls[i].req
                given == CallerSupplied(calls[i])
                others == Without(req.params, "oauth_signature")
            IN  /\ \A k \in RequiredKeys : Has(req.params, k)
                /\ Truthy(oauth_token) => Get(req.params, "oauth_token") = oauth_token
                /\ \A j \in 1..Len(given) :
                       /\ Has(req.params, given[j][1])
                       /\ (given[j][1] # "oauth_token" \/ ~Truthy(oauth_token))
                             => Get(req.params, given[j][1]) = given[j][2]
                /\ req.params[Len(req.params)] = <<"oauth_signature", SIG>>
                /\ Len(others) = Len(req.params) - 1
                /\ req.sig = Sign(client.secret, req.method, req.url, oauth_token_secret,
                                  client.provider.escape, others)

C11_Witness ==
    /\ kind = "oauth1"
    /\ Len(calls) = 1
    /\ calls[1].op = "request"
    /\ calls[1].args.params = <<<<"q", "a b">>>>
    /\ oauth_token = "vA"
    /\ Get(calls[1].req.params, "oauth_token") = "vA"
    /\ Get(calls[1].req.params, "q") = "a b"
    /\ calls[1].req.sig.base[1] = "POST"

\* The step puts a request() with a per-call token on an OAuth2 client.
BeginsTokenRequest ==
    /\ BeginsCall
    /\ kind = "oauth2"
    /\ BegunOp = "request"
    /\ Truthy(BegunArgs.token)

\* The request the step puts on the transport.
BegunReq == calls'[Len(calls')].req

\* C12 as stated: an OAuth2 request(access_token = X) carries
\* "Authorization: Bearer X" whatever headers the caller gave; without headers
\* of the caller it carries the default headers and that one; the params are
\* the caller's; and the held token is not changed by the call.
C12_PerCallTokenAlwaysAttached ==
    [][/\ BeginsTokenRequest
          => (/\ Len(calls') > Len(calls)
              /\ Get(BegunReq.headers, "Authorization") = "Bearer " \o BegunArgs.token
              /\ OrEmpty(BegunArgs.headers) = <<>>
                    => BegunReq.headers
                       = Append(DefaultHeaders,
                                <<"Authorization", "Bearer " \o BegunArgs.token>>)
              /\ BegunReq.params = BegunArgs.params
              /\ access_token' = access_token)
       /\ (kind = "oauth2" /\ EndsCall /\ last'.op = "request")
          => access_token' = access_token]_vars

\* C12 amended: the same, with "Authorization: Bearer X" carried when the
\* headers the caller gave hold no Authorization of their own; a caller's
\* Authorization header is sent as it is.
C12_PerCallTokenAttached ==
    [][/\ BeginsTokenRequest
          => (/\ Len(calls') > Len(calls)
              /\ Get(BegunReq.headers, "Authorization")
                 = (IF Has(BegunArgs.headers, "Authorization")
                    THEN Get(BegunArgs.headers, "Authorization")
                    ELSE "Bearer " \o BegunArgs.token)
              /\ OrEmpty(BegunArgs.headers) = <<>>
                    => BegunReq.headers
                       = Append(DefaultHeaders,
                                <<"Authorization", "Bearer " \o BegunArgs.token>>)
              /\ BegunReq.params = BegunArgs.params
              /\ access_token' = access_token)
       /\ (kind = "oauth2" /\ EndsCall /\ last'.op = "request")
          => access_token' = access_token]_vars

C12_Witness ==
    /\ kind = "oauth2"
    /\ access_token = "tC"
    /\ Len(calls) = 1
    /\ calls[1].op = "request"
    /\ calls[1].args.token = "vB"
    /\ calls[1].args.headers = NoneParams
    /\ calls[1].args.params = <<<<"q", "a b">>>>
    /\ calls[1].req.params = <<<<"q", "a b">>>>
    /\ calls[1].req.headers = Append(DefaultHeaders, <<"Authorization", "Bearer vB">>)

\* C13: user_info() on a client whose provider declares no user-info URL
\* raises NotImplementedError without a transport request, and the credential
\* state stays as it is.
C13_NoUserInfoUrlRaises ==
    [][(/\ BeginsCall
        /\ BegunOp = "user_info"
        /\ client.provider.user_info_url = NoUrl)
       => (/\ last'.outcome = "NotImplementedError"
           /\ last'.sent = 0
           /\ last'.signed = 0
           /\ calls' = calls
           /\ UNCHANGED creds)]_vars

C13_Witness ==
    /\ client.provider = StravaClient
    /\ last.op = "user_info"
    /\ last.outcome = "NotImplementedError"
    /\ last.sent = 0
    /\ calls = <<>>

\* C14: on a client whose provider declares a user-info URL, user_info() puts
\* one GET to that URL on the transport, signed (OAuth1) or carrying the held
\* bearer token (OAuth2); and when it returns it has issued that one request
\* and returns the User projected from the response with the response.
C14_UserInfoIssuesOneGet ==
    [][/\ (/\ BeginsCall
            /\ BegunOp = "user_info"
            /\ client.provider.user_info_url # NoUrl)
          => (/\ Len(calls') = Len(calls) + 1
              /\ BegunReq.method = "GET"
              /\ BegunReq.url = client.provider.user_info_url
              /\ kind = "oauth1" => BegunReq.sig # NoSignature
              /\ (kind = "oauth2" /\ Truthy(access_token))
                    => Get(BegunReq.headers, "Authorization") = "Bearer " \o access_token)
       /\ (EndsCall /\ last'.op = "user_info" /\ last'.outcome = "return")
          => (/\ last'.sent = 1
              /\ last'.data # NoData
              /\ last'.user = UserParse(client.provider, last'.data).user)]_vars

\* C15: a step that begins a call puts at most one request on the transport,
\* and none when the call stops before; a step that reads an answer, whatever
\* its status and also when the transport failed, ends the call that sent the
\* request, with that one request issued, and puts no request on the transport.
C15_OneRequestPerCall ==
    [][/\ BeginsCall
          => (/\ Len(calls') <= Len(calls) + 1
              /\ Len(calls') = Len(calls) + 1 => SubSeq(calls', 1, Len(calls)) = calls
              /\ Len(calls') = Len(calls) => last'.sent = 0)
       /\ (calls' # calls /\ Len(calls') <= Len(calls))
          => \E i \in 1..Len(calls) :
                /\ calls' = Remove(calls, i)
                /\ last'.op = calls[i].op
                /\ last'.outcome # NONE
                /\ last'.sent = 1]_vars

C15_Witness ==
    /\ last.op = "get_access_token"
    /\ last.outcome = "OAuthError"
    /\ last.status = 500
    /\ last.sent = 1
    /\ calls = <<>>

\* The transport failed and the call raised what the transport raised.
C15_WitnessFailure ==
    /\ last.op = "user_info"
    /\ last.outcome = "HTTPError"
    /\ last.sent = 1
    /\ calls = <<>>

\* The strings a log record shows.
Mentions(rec) ==
    {rec.method, rec.url.host}
    \cup {rec.url.path[i] : i \in 1..Len(rec.url.path)}
    \cup Values(rec.url.query)
    \cup {rec.data.d[k] : k \in Keys(rec.data.d)}
    \cup Values(rec.data.raw.fields)
    \cup rec.options

\* The call is an access-token exchange that returned an issued token.
SuccessfulExchange ==
    /\ last.op = "get_access_token"
    /\ last.outcome = "return"
    /\ Truthy(last.token)

\* C16: what a successful access-token exchange has logged is the one record
\* of its request, made of the method and the URL of the token endpoint alone
\* (the same whatever the token and the secrets are), and no record shows the
\* issued token, a secret issued with it, or the configured secret.
C16_NoSecretLogged ==
    SuccessfulExchange
    => (/\ last.log = <<LogRecord("debug", "POST", client.provider.access_token_url,
                                  NoData, {})>>
        /\ \A i \in 1..Len(last.log) :
              \A v \in {last.token, client.secret, oauth_token_secret, access_token} :
                  Truthy(v) => v \notin Mentions(last.log[i]))

C16_Witness ==
    /\ SuccessfulExchange
    /\ kind = "oauth2"
    /\ last.token = "vA"
    /\ Len(last.log) = 1
    /\ last.log[1].method = "POST"
    /\ last.log[1].url = GithubClient.access_token_url

\* C17: on an OAuth2 client the held access_token changes in two steps only:
\* get_access_token empties it when the exchange begins, and the exchange that
\* returns with a mapping holding access_token stores that value.  So a client
\* constructed without a token holds none until an exchange succeeds, a
\* non-empty held token is the one of the latest successful exchange, and no
\* other operation sets it.
C17_TokenOnlyFromExchange ==
    [][access_token' # access_token
       => (/\ kind = "oauth2"
           /\ \/ (/\ BeginsCall
                   /\ BegunOp = "get_access_token"
                   /\ access_token' = "")
              \/ (/\ EndsCall
                   /\ last'.op = "get_access_token"
                   /\ last'.outcome = "return"
                   /\ IsDict(last'.data)
                   /\ "access_token" \in Keys(last'.data.d)
                   /\ access_token' = last'.data.d["access_token"]))]_vars

\* A client that can only be constructed without a token holds one.
C17_Witness ==
    /\ client.provider = StravaClient
    /\ access_token = "vB"
    /\ last.op = "get_access_token"
    /\ last.outcome = "return"
    /\ last.data.d["access_token"] = "vB"

\* The token an authorize URL is built for: the request_token argument, else
\* the held token.
AuthorizeToken == Or(last.args.request_token, oauth_token)

\* The fields of a query, whatever their order.
QueryFields(url) == {url.query[i] : i \in 1..Len(url.query)}

\* The authorize URL returned is {authorize_url}?oauth_token={token}&{extra params}.
AuthorizeUrlBuilt ==
    /\ last.outcome = "return"
    /\ last.url.host = client.provider.authorize_url.host
    /\ last.url.path = client.provider.authorize_url.path
    /\ QueryFields(last.url)
       = {<<"oauth_token", QuotePlus(AuthorizeToken)>>}
         \cup QueryFields(WithQuery(NoUrl, Update(last.args.params, client.params)))

\* C18: OAuth1 get_authorize_url returns {authorize_url}?oauth_token={token}&
\* {extra params} when a token is held or given, and produces no URL when
\* none is.
C18_AuthorizeUrlNeedsToken ==
    (kind = "oauth1" /\ last.op = "get_authorize_url")
    => IF Truthy(AuthorizeToken) THEN AuthorizeUrlBuilt
       ELSE last.outcome # "return" /\ last.url = NoUrl

\* The step puts a get_access_token on the transport whose verifier / code was
\* given as a mapping that holds it under the shared key.
BeginsMappingExchange ==
    /\ BeginsCall
    /\ Len(calls') > Len(calls)
    /\ BegunOp = "get_access_token"
    /\ BegunArgs.shared.form = "map"
    /\ BegunArgs.shared.val # ABSENT

\* The request get_access_token sends when it is given the bare string v with
\* the other arguments of the call the step begins.
BareStringRequest(v) ==
    IF kind = "oauth1"
    THEN OAuth1Request("POST", client.provider.access_token_url,
                       <<<<"oauth_verifier", v>>,
                         <<"oauth_token", BegunArgs.request_token>>>>,
                       BegunArgs.headers,
                       Get(BegunReq.params, "oauth_nonce"),
                       Get(BegunReq.params, "oauth_timestamp")).req
    ELSE OAuth2Request("POST", client.provider.access_token_url, NoneParams,
                       BegunArgs.headers, NONE,
                       Payload(Shared("str", v), BegunArgs.redirect_uri, BegunArgs.payload),
                       "").req

\* C19: a get_access_token (OAuth1 or OAuth2) given a mapping that holds the
\* verifier / code under the shared key sends the request it sends for that
\* value given as a bare string, and leaves the client in the same state; the
\* answer is then read from the request alone, so the credential state and the
\* value returned are the same too.
C19_MappingSameAsString ==
    [][BeginsMappingExchange
       => (/\ BegunReq = BareStringRequest(BegunArgs.shared.val)
           /\ calls'[Len(calls')].raise_for_status
           /\ calls'[Len(calls')].log = <<RequestLog(BegunReq)>>
           /\ oauth_token' = oauth_token
           /\ oauth_token_secret' = oauth_token_secret
           /\ access_token' = (IF kind = "oauth2" THEN "" ELSE access_token))]_vars

C19_Witness ==
    /\ Len(calls) = 1
    /\ calls[1].op = "get_access_token"
    /\ calls[1].args.shared = Shared("map", "123")
    /\ \/ kind = "oauth1" /\ Get(calls[1].req.params, "oauth_verifier") = "123"
       \/ kind = "oauth2" /\ Get(calls[1].req.data, "code") = "123"

C19_WitnessOAuth2 ==
    /\ C19_Witness
    /\ kind = "oauth2"
    /\ Get(calls[1].req.data, "refresh_token") = NONE

\* The URL without its query string.
RemoveQs(url) == Url(url.host, url.rooted, url.path, <<>>)

\* C20: the base string sign() builds for a URL is the one it builds for that
\* URL without its query string, the other inputs being the same; so the
\* signatures are the same too.
C20_QueryStrippedBeforeSigning ==
    (last.op = "sign" /\ last.outcome = "return")
    => last.sig = Sign(last.args.consumer_secret, last.args.method,
                       RemoveQs(last.args.url), last.args.oauth_token_secret,
                       last.args.escape, last.args.params)

\* The step computes an authorize URL.
ComputesAuthorizeUrl == BeginsCall /\ BegunOp = "get_authorize_url"

\* The query fields of the authorize URL, from the state before the call and
\* the arguments of the call.
AuthorizeFields ==
    IF kind = "oauth1"
    THEN {<<"oauth_token", QuotePlus(Or(BegunArgs.request_token, oauth_token))>>}
         \cup {<<QuotePlus(BegunArgs.params[i][1]), QuotePlus(BegunArgs.params[i][2])>> :
                  i \in {j \in 1..Len(BegunArgs.params) :
                            /\ BegunArgs.params[j][1] # "oauth_token"
                            /\ ~Has(client.params, BegunArgs.params[j][1])}}
         \cup {<<QuotePlus(client.params[i][1]), QuotePlus(client.params[i][2])>> :
                  i \in 1..Len(client.params)}
    ELSE {<<"client_id", QuotePlus(client.key)>>, <<"response_type", "code">>}
         \cup {<<QuotePlus(BegunArgs.params[i][1]), QuotePlus(BegunArgs.params[i][2])>> :
                  i \in 1..Len(BegunArgs.params)}
         \cup {<<QuotePlus(client.params[i][1]), QuotePlus(client.params[i][2])>> :
                  i \in {j \in 1..Len(client.params) :
                            ~Has(BegunArgs.params, client.params[j][1])}}

\* C22: computing an authorize URL (OAuth1 or OAuth2) changes neither the
\* credential state nor the client's params, and the URL returned is made of
\* the provider's authorize URL, the held token (or the client id), the extra
\* parameters and the client's params alone: computed again with the same
\* held token and the same extra parameters, it is the same URL.
C22_AuthorizeUrlIdempotent ==
    [][ComputesAuthorizeUrl
       => (/\ client' = client
           /\ UNCHANGED creds
           /\ calls' = calls
           /\ last'.outcome = "return"
           /\ last'.url.host = client.provider.authorize_url.host
           /\ last'.url.path = client.provider.authorize_url.path
           /\ QueryFields(last'.url) = AuthorizeFields
           /\ Len(last'.url.query) = Cardinality(AuthorizeFields))]_vars

C22_Witness ==
    /\ last.op = "get_authorize_url"
    /\ last.outcome = "return"
    /\ client.params # <<>>
    /\ last.args.params # <<>>
    /\ Len(last.url.query) >= 3

\* An OAuth2 get_access_token has returned.
OAuth2ExchangeReturned ==
    /\ kind = "oauth2"
    /\ last.op = "get_access_token"
    /\ last.outcome = "return"

\* C23 as stated: the payload an OAuth2 get_access_token returns is a mapping,
\* whatever the body of the answer is.
C23_PayloadAlwaysMapping == OAuth2ExchangeReturned => IsDict(last.data)

\* The body of the answer is form-encoded text with a field whose value is
\* not blank.
HasFormFields(body) ==
    body.fmt = "form" /\ \E i \in 1..Len(body.fields) : body.fields[i][2] # ""

\* C23 amended: the payload is the mapping of the body when the answer is
\* JSON holding an object, or is not JSON and holds form-encoded fields with
\* a value; for every other body the call returns the empty token with the
\* body as it came (the text, or the JSON value).
C23_PayloadMappingWhenParsable ==
    OAuth2ExchangeReturned
    => LET body == last.answer.body
       IN  IF last.answer.ctype = "json" /\ body.fmt = "object"
           THEN IsDict(last.data) /\ last.data.d = DictOf(body.fields)
           ELSE IF last.answer.ctype # "json" /\ HasFormFields(body)
           THEN /\ IsDict(last.data)
                /\ Keys(last.data.d)
                   = {body.fields[i][1] : i \in {j \in 1..Len(body.fields) :
                                                    body.fields[j][2] # ""}}
           ELSE /\ ~IsDict(last.data)
                /\ last.data.raw = body
                /\ last.token = ""

C23_Witness ==
    /\ OAuth2ExchangeReturned
    /\ last.answer.ctype = "text"
    /\ last.answer.body.fields = <<<<"access_token", "vA">>, <<"error", "denied">>>>
    /\ IsDict(last.data)
    /\ last.token = "vA"

\* The body does not parse into fields: the text itself is returned.
C23_WitnessText ==
    /\ OAuth2ExchangeReturned
    /\ last.answer.ctype = "text"
    /\ last.answer.body.fields = <<<<"access_token", "">>>>
    /\ last.data.t = "str"
    /\ last.token = ""

\* C24: an OAuth1 client that holds a token holds a token after every step:
\* no call brings it back to holding none.
C24_TokenNeverLost ==
    [][(kind = "oauth1" /\ Truthy(oauth_token)) => Truthy(oauth_token')]_vars

\* C25: the request a get_request_token has on the transport is a GET to the
\* request-token URL whose signing key ends with the empty token secret,
\* whatever the client held when the call was made.
C25_RequestTokenSignedWithEmptySecret ==
    \A i \in 1..Len(calls) :
        calls[i].op = "get_request_token"
        => (/\ calls[i].req.method = "GET"
            /\ calls[i].req.url = client.provider.request_token_url
            /\ calls[i].req.sig.key = <<Escape(client.secret), "&">>)

\* The code or refresh token an exchange posts.
PostedCode(shared) == IF shared.val # ABSENT THEN shared.val ELSE MAPPING

\* C26: the body an OAuth2 get_access_token posts to the access-token URL
\* holds the client's own client_id and client_secret, whatever the payload of
\* the caller says; the caller's grant_type, else authorization_code; the code
\* under "code", or under "refresh_token" alone when grant_type is
\* refresh_token; and redirect_uri exactly when the call or the client's
\* params give one.
C26_ExchangePayload ==
    \A i \in 1..Len(calls) :
        (kind = "oauth2" /\ calls[i].op = "get_access_token")
        => LET d == calls[i].req.data
               a == calls[i].args
               uri == Or(a.redirect_uri, Get(client.params, "redirect_uri"))
           IN  /\ calls[i].req.method = "POST"
               /\ calls[i].req.url = client.provider.access_token_url
               /\ Get(d, "client_id") = client.key
               /\ Get(d, "client_secret") = client.secret
               /\ Get(d, "grant_type")
                  = (IF Has(a.payload, "grant_type") THEN Get(a.payload, "grant_type")
                     ELSE "authorization_code")
               /\ IF Get(d, "grant_type") = "refresh_token"
                  THEN Get(d, "refresh_token") = PostedCode(a.shared) /\ ~Has(d, "code")
                  ELSE Get(d, "code") = PostedCode(a.shared) /\ ~Has(d, "refresh_token")
               /\ Has(d, "redirect_uri") <=> Truthy(uri)
               /\ Truthy(uri) => Get(d, "redirect_uri") = uri

C26_Witness ==
    /\ kind = "oauth2"
    /\ Len(calls) = 1
    /\ calls[1].op = "get_access_token"
    /\ Get(calls[1].args.payload, "client_secret") = "other"
    /\ Get(calls[1].req.data, "client_secret") = "secret"
    /\ calls[1].args.redirect_uri = NONE
    /\ Get(calls[1].req.data, "redirect_uri") = "http://cb"

C26_WitnessRefresh ==
    /\ kind = "oauth2"
    /\ Len(calls) = 1
    /\ calls[1].op = "get_access_token"
    /\ Get(calls[1].req.data, "grant_type") = "refresh_token"
    /\ Get(calls[1].req.data, "refresh_token") = "123"
    /\ ~Has(calls[1].req.data, "redirect_uri")

\* The pairs the constructor may be given.
ConstructorPairs == {<<c[2], c[3]>> : c \in {k \in Constructions : k[1].kind = "oauth1"}}

\* The pairs an exchange takes from one answer of the token endpoint.
ResponsePairs ==
    {<<ExchangedToken(ReadResponse(resp, TRUE).data),
       ExchangedSecret(ReadResponse(resp, TRUE).data)>> :
        resp \in {a \in ExchangeAnswers : IsDict(ReadResponse(a, TRUE).data)}}

\* C27: with the exchanges of several flows interleaved on one OAuth1 client,
\* the held token and secret are in every state the pair the constructor was
\* given or the pair taken from one answer: never the token of one answer with
\* the secret of another.
C27_PairFromOneResponse ==
    kind = "oauth1"
    => <<oauth_token, oauth_token_secret>> \in ConstructorPairs \cup ResponsePairs

\* An exchange sent while vA was held still awaits its answer, and the pair
\* of another exchange has been stored in the meantime.
C27_Witness ==
    /\ kind = "oauth1"
    /\ Len(calls) = 1
    /\ calls[1].op = "get_access_token"
    /\ Get(calls[1].req.params, "oauth_token") = "vA"
    /\ oauth_token = "vB"
    /\ oauth_token_secret = "vB"
    /\ last.op = "get_request_token"

\* The OAuth2 get_access_token that finished last has obtained a token.
ObtainedToken ==
    /\ last.outcome = "return"
    /\ IsDict(last.data)
    /\ "access_token" \in Keys(last.data.d)

\* C28: after an OAuth2 get_access_token that read an answer and obtained no
\* access_token from it (error status, failure of the transport, a body that
\* is no mapping, a mapping without access_token), the client holds the empty
\* token, whatever it held before the call.
C28_NoTokenAfterFailedExchange ==
    (/\ kind = "oauth2"
     /\ last.op = "get_access_token"
     /\ last.sent = 1
     /\ ~ObtainedToken)
    => access_token = ""

\* The client was constructed with a token (the constructions with params
\* are): the exchange that failed has emptied it.
C28_Witness ==
    /\ client.provider = GithubClient
    /\ client.params # <<>>
    /\ last.op = "get_access_token"
    /\ last.outcome = "OAuthError"
    /\ last.answer.status = 500
    /\ access_token = ""

\* An OAuth2 get_access_token awaits its answer.
ExchangeAwaits ==
    kind = "oauth2" /\ \E i \in 1..Len(calls) : calls[i].op = "get_access_token"

\* The step puts a request() without per-call token on the transport.
BeginsPlainRequest ==
    /\ BeginsCall
    /\ BegunOp = "request"
    /\ ~Truthy(BegunArgs.token)

\* The step puts an OAuth2 get_access_token on the transport.
BeginsOAuth2Exchange == BeginsCall /\ kind = "oauth2" /\ BegunOp = "get_access_token"

\* C29 as stated: while an OAuth2 get_access_token awaits its answer the
\* client holds no token; the request of the exchange carries no bearer header
\* and a request() begun in that window carries no Authorization header.
C29_NoTokenWhileExchangeAwaits ==
    [][/\ BeginsOAuth2Exchange
          => (access_token' = "" /\ ~Has(BegunReq.headers, "Authorization"))
       /\ ExchangeAwaits => access_token = ""
       /\ (ExchangeAwaits /\ BeginsPlainRequest)
          => ~Has(BegunReq.headers, "Authorization")]_vars

\* C29 amended: the exchange empties the held token before it sends its
\* request, which carries no bearer header; while it awaits, a token is held
\* only once another exchange on the same client has returned and stored its
\* own; and as long as none has, a request() begun in that window carries no
\* Authorization header.
C29_NoOldTokenWhileExchangeAwaits ==
    [][/\ BeginsOAuth2Exchange
          => (access_token' = "" /\ ~Has(BegunReq.headers, "Authorization"))
       /\ (ExchangeAwaits /\ access_token' # access_token)
          => \/ BeginsOAuth2Exchange
             \/ (/\ EndsCall
                 /\ last'.op = "get_access_token"
                 /\ last'.outcome = "return"
                 /\ access_token' = last'.data.d["access_token"])
       /\ (ExchangeAwaits /\ access_token = "" /\ BeginsPlainRequest)
          => ~Has(BegunReq.headers, "Authorization")]_vars

\* A client constructed with a token: its exchange awaits, and the request()
\* begun after it went without Authorization header.
C29_Witness ==
    /\ kind = "oauth2"
    /\ client.params # <<>>
    /\ Len(calls) = 2
    /\ calls[1].op = "get_access_token"
    /\ calls[2].op = "request"
    /\ calls[2].args.token = NONE
    /\ ~Has(calls[2].req.headers, "Authorization")
    /\ access_token = ""

\* The step puts a request of an OAuth1 client on the transport.
SendsOAuth1 == kind = "oauth1" /\ Len(calls') > Len(calls)

\* The values signed under a key: the entries of the query string the
\* signature was computed from.
SignedValues(sig, k) ==
    {sig.base[3][j][2] : j \in {n \in 1..Len(sig.base[3]) : sig.base[3][n][1] = k}}

\* C30: whenever an OAuth1 client that holds a token puts a request on the
\* transport, the oauth_token sent and the oauth_token signed are the held
\* token, whatever oauth_token the caller gave in params; and get_access_token
\* called without request_token is not stopped by the integrity check: with a
\* verifier that resolves to a string it sends the verifier under the held
\* token.
C30_HeldTokenOverridesCaller ==
    [][/\ (SendsOAuth1 /\ Truthy(oauth_token))
          => (/\ Get(BegunReq.params, "oauth_token") = oauth_token
              /\ SignedValues(BegunReq.sig, "oauth_token") = {oauth_token})
       /\ (/\ BeginsCall
           /\ kind = "oauth1"
           /\ BegunOp = "get_access_token"
           /\ ~Truthy(BegunArgs.request_token)
           /\ Truthy(oauth_token))
          => (/\ ~(last'.outcome = "OAuthError" /\ last'.sent = 0)
              /\ Resolve(BegunArgs.shared).form = "str"
                    => (/\ SendsOAuth1
                        /\ Get(BegunReq.params, "oauth_verifier")
                              = Resolve(BegunArgs.shared).val
                        /\ Get(BegunReq.params, "oauth_token") = oauth_token))]_vars

\* A get_access_token called without request_token is on the transport with
\* the verifier under the held token vA.
C30_Witness ==
    /\ kind = "oauth1"
    /\ oauth_token = "vA"
    /\ Len(calls) = 1
    /\ calls[1].op = "get_access_token"
    /\ calls[1].args.request_token = NONE
    /\ Get(calls[1].req.params, "oauth_token") = "vA"
    /\ Get(calls[1].req.params, "oauth_verifier") = "123"
    /\ SignedValues(calls[1].req.sig, "oauth_token") = {"vA"}

\* A request() given oauth_token = vB by its caller is on the transport with
\* the held token vA.
C30_WitnessRequest ==
    /\ kind = "oauth1"
    /\ oauth_token = "vA"
    /\ Len(calls) = 1
    /\ calls[1].op = "request"
    /\ calls[1].args.params = <<<<"oauth_token", "vB">>>>
    /\ Get(calls[1].req.params, "oauth_token") = "vA"
    /\ SignedValues(calls[1].req.sig, "oauth_token") = {"vA"}

\* sign() was called with the arguments of tests/test_signature.py.
TestCall ==
    /\ last.op = "sign"
    /\ last.args.consumer_secret = "consumer_secret"
    /\ last.args.method = "GET"
    /\ last.args.url = "https://site.com/endpoint.json"
    /\ last.args.oauth_token_secret = "oauth_token_secret"
    /\ last.args.escape = FALSE
    /\ last.args.params = TestParams

\* C21: sign() called with consumer_secret = 'consumer_secret', method = 'GET',
\* url = 'https://site.com/endpoint.json', oauth_token_secret =
\* 'oauth_token_secret', escape = False and the parameters of the test returns
\* eqgTuU6+8g4Op1Cyu0QWk+watto=.
C21_TestVectorSignature == TestCall => last.token = "eqgTuU6+8g4Op1Cyu0QWk+watto="

\* The call of the test has returned a Base64 string of 28 characters.
C21_Witness == TestCall /\ last.outcome = "return" /\ Len(last.token) = 28

====
